---------------------------- MODULE Spec2Model ----------------------------
(***************************************************************************)
(* Pubst: a single-process, in-memory publish/subscribe value broker.      *)
(* The model follows the broker of src/unnamed/part_002 (the same engine   *)
(* as the class in src/unnamed/part_001): the topic registry, the value    *)
(* store, the subscription index, the delivery scheduler (setTimeout 0)    *)
(* and the facade operations.                                              *)
(*                                                                         *)
(* JavaScript values are strings here: Undef and Null are the two unset    *)
(* values, "a", "b", "d", "e" are set payloads and defaults, and a topic   *)
(* name is itself a value (what an event-only delivery hands over).        *)
(***************************************************************************)
EXTENDS Naturals, Sequences, FiniteSets, TLC

VARIABLES
  store,       \* the Value Store: sequence of [k, v] in key insertion order
  topics,      \* the Topic Registry: function from configured names to configs
  stringSubs,  \* exact-name subscriptions: topic name -> sequence of sub ids
  regexSubs,   \* pattern subscriptions: sequence of sub ids
  subs,        \* every subscription object ever created, by id (its identity)
  queue,       \* pending setTimeout(..., 0) tasks, FIFO
  calls,       \* handler invocations so far: sequence of [sub, handler, value, topic]
  config,      \* global configuration: [showWarnings]
  lastOp,      \* the last facade call: what it was, what it returned, threw, warned
  prevOp,      \* the facade call before it
  unsubbed,    \* per sub id: how many times its unsubscribe function was called
  count        \* how many facade calls of each kind were made (bounds the run)

vars == <<store, topics, stringSubs, regexSubs, subs, queue, calls, config,
          lastOp, prevOp, unsubbed, count>>

---------------------------------------------------------------------------
(* Values *)

Undef == "undefined"
Null == "null"

TopicNames == {"t1", "t2"}
Handlers == {"h1", "h2"}

isUndefined(input) == input = Undef

isDefined(input) == ~isUndefined(input)

isNotSet(item) == item = Null \/ isUndefined(item)

isSet(item) == ~isNotSet(item)

valueOrDefault_noDefCheck(value, def) ==
  IF isNotSet(value) THEN def ELSE value

valueOrDefault(value, def) ==
  IF isNotSet(value) /\ isDefined(def) THEN def ELSE value

---------------------------------------------------------------------------
(* Objects with optional keys: a record of all the keys plus `has`, the    *)
(* set of keys the object owns. A key outside `has` holds a filler.        *)

DEFAULT_TOPIC_CONFIG ==
  [name |-> "", default |-> Undef, eventOnly |-> FALSE, doPrime |-> TRUE,
   allowRepeats |-> FALSE, validator |-> "everythingIsAwesome"]

\* (a list that lets no flag of the configuration object through)
ALLOWED_SUB_PROPS_noFlags == {"topic", "handler", "default"}

ALLOWED_SUB_PROPS == {"topic", "handler", "default", "doPrime", "allowRepeats"}

\* buildConfig(base, extensions): base's keys, overridden by the extensions
\* that base already has; other keys of the extensions are dropped.
buildConfig(base, extensions) ==
  [key \in DOMAIN base |->
     IF key \in extensions.has THEN extensions[key] ELSE base[key]]

\* What a validator function returns for a payload. The validators are the
\* user's; these are the shapes the tests use.
validatorResult(validator, payload) ==
  CASE validator = "everythingIsAwesome" -> "validTrue"
    [] validator = "rejectObj" -> "validFalse"
    [] validator = "rejectFalse" -> "false"
    [] validator = "onlyA" -> IF payload = "a" THEN "validTrue" ELSE "validFalse"
    [] validator = "onlyAOrFalse" -> IF payload = "a" THEN "validTrue" ELSE "false"
    [] validator = "returnsNull" -> "null"
    [] validator = "returnsUndefined" -> "undefined"
    [] OTHER -> "validTrue"

\* JavaScript truthiness of a validation result, and its .valid
truthy(result) == result \notin {"false", "null", "undefined"}

validOf(result) == result = "validTrue"

---------------------------------------------------------------------------
(* The broker as one record, so that each function of the source is an     *)
(* operator from broker state to broker state. `warnings` and `err` are    *)
(* the console output and the exception of the call in progress.           *)

Broker ==
  [store |-> store, topics |-> topics, stringSubs |-> stringSubs,
   regexSubs |-> regexSubs, subs |-> subs, queue |-> queue, calls |-> calls,
   config |-> config, warnings |-> <<>>, err |-> "", unsubbed |-> unsubbed]

\* (a warning sink that cannot be turned off)
warn_unconditional(b, message) == [b EXCEPT !.warnings = Append(@, message)]

warn(b, message) ==
  IF b.config.showWarnings
    THEN [b EXCEPT !.warnings = Append(@, message)]
    ELSE b

throw(b, error) == [b EXCEPT !.err = error]

\* store.hasOwnProperty(topic), store[topic], store[topic] = payload, Object.keys(store)
storeHas(st, k) == \E i \in 1..Len(st) : st[i].k = k

storeGet(st, k) ==
  IF storeHas(st, k) THEN st[CHOOSE i \in 1..Len(st) : st[i].k = k].v ELSE Undef

storeSet(st, k, v) ==
  IF storeHas(st, k)
    THEN [i \in 1..Len(st) |-> IF st[i].k = k THEN [k |-> k, v |-> v] ELSE st[i]]
    ELSE Append(st, [k |-> k, v |-> v])

storeKeys(st) == [i \in 1..Len(st) |-> st[i].k]

\* String.prototype.match against the patterns the model subscribes with
regexMatch(name, re) ==
  CASE re = "t" -> name \in {"t1", "t2"}
    [] re = "1" -> name = "t1"
    [] re = "2" -> name = "t2"
    [] OTHER -> FALSE

getStringSubsFor(b, topic) == b.stringSubs[topic]

\* (a lookup that returns every pattern subscription)
getRegexSubsFor_all(b, topic) == b.regexSubs

getRegexSubsFor(b, topic) ==
  LET matches(s) == regexMatch(topic, b.subs[s].topic.src)
  IN  SelectSeq(b.regexSubs, matches)

\* (a lookup that puts the pattern subscriptions first)
allSubsFor_patternsFirst(b, topic) == getRegexSubsFor(b, topic) \o getStringSubsFor(b, topic)

allSubsFor(b, topic) == getStringSubsFor(b, topic) \o getRegexSubsFor(b, topic)

getTopicConfig(b, topic) ==
  IF topic \in DOMAIN b.topics
    THEN b.topics[topic]
    ELSE buildConfig(DEFAULT_TOPIC_CONFIG,
                     [has |-> {"name"}, name |-> topic])


---------------------------------------------------------------------------
(* The Delivery Scheduler *)

\* The body of the timer callback: the handler is called with the captured
\* value and topic, then the subscription's delivery state is updated.
runTask_readsStore(b, task) ==
  LET sub == b.subs[task.sub]
      current == valueOrDefault(storeGet(b.store, task.topic), sub.default)
  IN  [b EXCEPT !.calls = Append(@, [sub |-> task.sub, handler |-> sub.handler,
                                     value |-> current, topic |-> task.topic]),
                !.subs[task.sub].lastVal = current,
                !.subs[task.sub].lastTopic = task.topic]

\* (a callback that looks, when it runs, whether the subscriber is still
\* registered, and does nothing if it is not)
runTask_ifRegistered(b, task) ==
  LET sub == b.subs[task.sub]
      registered == \/ \E n \in DOMAIN b.stringSubs :
                          \E i \in 1..Len(b.stringSubs[n]) : b.stringSubs[n][i] = task.sub
                    \/ \E i \in 1..Len(b.regexSubs) : b.regexSubs[i] = task.sub
  IN  IF registered
        THEN [b EXCEPT !.calls = Append(@, [sub |-> task.sub, handler |-> sub.handler,
                                            value |-> task.value, topic |-> task.topic]),
                       !.subs[task.sub].lastVal = task.value,
                       !.subs[task.sub].lastTopic = task.topic]
        ELSE b

runTask(b, task) ==
  LET sub == b.subs[task.sub]
  IN  [b EXCEPT !.calls = Append(@, [sub |-> task.sub, handler |-> sub.handler,
                                     value |-> task.value, topic |-> task.topic]),
                !.subs[task.sub].lastVal = task.value,
                !.subs[task.sub].lastTopic = task.topic]

\* (a scheduler that runs the callback at once)
setTimeout0_runsNow(b, task) == runTask(b, task)

\* (a scheduler whose newest callback runs first)
setTimeout0_newestFirst(b, task) == [b EXCEPT !.queue = <<task>> \o @]

\* (a scheduler that notes the delivery when it schedules it)
setTimeout0_notesAtOnce(b, task) ==
  [b EXCEPT !.queue = Append(@, task),
            !.subs[task.sub].lastVal = task.value,
            !.subs[task.sub].lastTopic = task.topic]

\* setTimeout(callback, 0): the callback joins the timer queue
setTimeout0(b, task) == [b EXCEPT !.queue = Append(@, task)]

\* (a scheduler that knows the subscription's default only)
scheduleCall_ownDefaultOnly(b, s, payload, topic) ==
  LET sub == b.subs[s]
      topicConfig == getTopicConfig(b, topic)
      eventOnly == IF "eventOnly" \in sub.has THEN sub.eventOnly
                                               ELSE topicConfig.eventOnly
      allowRepeats == IF "allowRepeats" \in sub.has THEN sub.allowRepeats
                                                     ELSE topicConfig.allowRepeats
      value == IF eventOnly THEN topic ELSE valueOrDefault(payload, sub.default)
  IN  IF eventOnly \/ allowRepeats \/ sub.lastVal # value \/ sub.lastTopic # topic
        THEN setTimeout0(b, [sub |-> s, value |-> value, topic |-> topic])
        ELSE b

\* (a scheduler that applies repeat suppression to event-only deliveries too)
scheduleCall_suppressesEvents(b, s, payload, topic) ==
  LET sub == b.subs[s]
      topicConfig == getTopicConfig(b, topic)
      defVal == IF isUndefined(sub.default) THEN topicConfig.default ELSE sub.default
      eventOnly == IF "eventOnly" \in sub.has THEN sub.eventOnly
                                               ELSE topicConfig.eventOnly
      allowRepeats == IF "allowRepeats" \in sub.has THEN sub.allowRepeats
                                                     ELSE topicConfig.allowRepeats
      value == IF eventOnly THEN topic ELSE valueOrDefault(payload, defVal)
  IN  IF allowRepeats \/ sub.lastVal # value \/ sub.lastTopic # topic
        THEN setTimeout0(b, [sub |-> s, value |-> value, topic |-> topic])
        ELSE b

\* (a scheduler that compares the value only, not the topic)
scheduleCall_valueOnly(b, s, payload, topic) ==
  LET sub == b.subs[s]
      topicConfig == getTopicConfig(b, topic)
      defVal == IF isUndefined(sub.default) THEN topicConfig.default ELSE sub.default
      eventOnly == IF "eventOnly" \in sub.has THEN sub.eventOnly
                                               ELSE topicConfig.eventOnly
      allowRepeats == IF "allowRepeats" \in sub.has THEN sub.allowRepeats
                                                     ELSE topicConfig.allowRepeats
      value == IF eventOnly THEN topic ELSE valueOrDefault(payload, defVal)
  IN  IF eventOnly \/ allowRepeats \/ sub.lastVal # value
        THEN setTimeout0(b, [sub |-> s, value |-> value, topic |-> topic])
        ELSE b

\* (a scheduler that remembers the last value delivered on each topic)
scheduleCall_perTopic(b, s, payload, topic) ==
  LET sub == b.subs[s]
      topicConfig == getTopicConfig(b, topic)
      defVal == IF isUndefined(sub.default) THEN topicConfig.default ELSE sub.default
      eventOnly == IF "eventOnly" \in sub.has THEN sub.eventOnly
                                               ELSE topicConfig.eventOnly
      allowRepeats == IF "allowRepeats" \in sub.has THEN sub.allowRepeats
                                                     ELSE topicConfig.allowRepeats
      value == IF eventOnly THEN topic ELSE valueOrDefault(payload, defVal)
      onTopic == SelectSeq(b.calls, LAMBDA c : c.sub = s /\ c.topic = topic)
      repeated == onTopic # <<>> /\ onTopic[Len(onTopic)].value = value
  IN  IF eventOnly \/ allowRepeats \/ ~repeated
        THEN setTimeout0(b, [sub |-> s, value |-> value, topic |-> topic])
        ELSE b

scheduleCall(b, s, payload, topic) ==
  LET sub == b.subs[s]
      topicConfig == getTopicConfig(b, topic)
      defVal == IF isUndefined(sub.default) THEN topicConfig.default ELSE sub.default
      eventOnly == IF "eventOnly" \in sub.has THEN sub.eventOnly
                                               ELSE topicConfig.eventOnly
      allowRepeats == IF "allowRepeats" \in sub.has THEN sub.allowRepeats
                                                     ELSE topicConfig.allowRepeats
      value == IF eventOnly THEN topic ELSE valueOrDefault(payload, defVal)
  IN  IF eventOnly \/ allowRepeats \/ sub.lastVal # value \/ sub.lastTopic # topic
        THEN setTimeout0(b, [sub |-> s, value |-> value, topic |-> topic])
        ELSE b

---------------------------------------------------------------------------
(* The Broker Facade *)

RECURSIVE publishToEach(_, _, _)
\* subs.forEach(sub => scheduleCall(sub, store[topic], topic))
publishToEach(b, subSeq, topic) ==
  IF subSeq = <<>>
    THEN b
    ELSE publishToEach(scheduleCall(b, Head(subSeq), storeGet(b.store, topic), topic),
                       Tail(subSeq), topic)

\* (a publish that stores the payload before it validates it)
publish_storesFirst(b, topic, payload) ==
  LET b1 == IF topic \notin DOMAIN b.topics
              THEN warn(b, "publish: topic has not been configured")
              ELSE b
      topicConfig == getTopicConfig(b1, topic)
      validationResult == validatorResult(topicConfig.validator, payload)
      b2 == [b1 EXCEPT !.store = storeSet(@, topic, payload)]
      matched == allSubsFor(b2, topic)
  IN  IF ~topicConfig.eventOnly /\ (~truthy(validationResult) \/ ~validOf(validationResult))
        THEN throw(b2, "Validation failed")
        ELSE IF Len(matched) = 0
          THEN warn(b2, "publish: no subscribers match")
          ELSE publishToEach(b2, matched, topic)

\* (a publish that returns at once when the payload is the stored value)
publish_shortCircuits(b, topic, payload) ==
  LET b1 == IF topic \notin DOMAIN b.topics
              THEN warn(b, "publish: topic has not been configured")
              ELSE b
      topicConfig == getTopicConfig(b1, topic)
      validationResult == validatorResult(topicConfig.validator, payload)
  IN  IF storeHas(b.store, topic) /\ storeGet(b.store, topic) = payload
        THEN b
        ELSE IF ~topicConfig.eventOnly
                  /\ (~truthy(validationResult) \/ ~validOf(validationResult))
          THEN throw(b1, "Validation failed")
          ELSE LET b2 == [b1 EXCEPT !.store = storeSet(@, topic, payload)]
                   matched == allSubsFor(b2, topic)
               IN  IF Len(matched) = 0
                     THEN warn(b2, "publish: no subscribers match")
                     ELSE publishToEach(b2, matched, topic)

\* (a publish that validates event-only topics too)
publish_validatesEvents(b, topic, payload) ==
  LET b1 == IF topic \notin DOMAIN b.topics
              THEN warn(b, "publish: topic has not been configured")
              ELSE b
      topicConfig == getTopicConfig(b1, topic)
      validationResult == validatorResult(topicConfig.validator, payload)
  IN  IF ~truthy(validationResult) \/ ~validOf(validationResult)
        THEN throw(b1, "Validation failed")
        ELSE LET b2 == [b1 EXCEPT !.store = storeSet(@, topic, payload)]
                 matched == allSubsFor(b2, topic)
             IN  IF Len(matched) = 0
                   THEN warn(b2, "publish: no subscribers match")
                   ELSE publishToEach(b2, matched, topic)

\* (a publish that keeps the configuration it made up for an unconfigured
\* topic)
publish_persistsConfig(b, topic, payload) ==
  LET b1 == IF topic \notin DOMAIN b.topics
              THEN warn(b, "publish: topic has not been configured")
              ELSE b
      topicConfig == getTopicConfig(b1, topic)
      validationResult == validatorResult(topicConfig.validator, payload)
  IN  IF ~topicConfig.eventOnly /\ (~truthy(validationResult) \/ ~validOf(validationResult))
        THEN throw(b1, "Validation failed")
        ELSE LET b2 == [b1 EXCEPT !.store = storeSet(@, topic, payload),
                                  !.topics = [n \in DOMAIN b1.topics \cup {topic} |->
                                                IF n = topic THEN topicConfig
                                                             ELSE b1.topics[n]]]
                 matched == allSubsFor(b2, topic)
             IN  IF Len(matched) = 0
                   THEN warn(b2, "publish: no subscribers match")
                   ELSE publishToEach(b2, matched, topic)

publish(b, topic, payload) ==
  LET b1 == IF topic \notin DOMAIN b.topics
              THEN warn(b, "publish: topic has not been configured")
              ELSE b
      topicConfig == getTopicConfig(b1, topic)
      validationResult == validatorResult(topicConfig.validator, payload)
  IN  IF ~topicConfig.eventOnly /\ (~truthy(validationResult) \/ ~validOf(validationResult))
        THEN throw(b1, "Validation failed")
        ELSE LET b2 == [b1 EXCEPT !.store = storeSet(@, topic, payload)]
                 matched == allSubsFor(b2, topic)
             IN  IF Len(matched) = 0
                   THEN warn(b2, "publish: no subscribers match")
                   ELSE publishToEach(b2, matched, topic)

\* (a currentVal that knows no topic default)
currentVal_noTopicDefault(b, topic, def) == valueOrDefault(storeGet(b.store, topic), def)

currentVal(b, topic, def) ==
  LET defToUse == IF isDefined(def) THEN def ELSE getTopicConfig(b, topic).default
  IN  valueOrDefault(storeGet(b.store, topic), defToUse)

\* (a clear that writes null and notifies without consulting the validator)
clear_unvalidated(b, topic) ==
  IF storeHas(b.store, topic)
    THEN LET b1 == [b EXCEPT !.store = storeSet(@, topic, Null)]
         IN  publishToEach(b1, allSubsFor(b1, topic), topic)
    ELSE b

\* (a clear that publishes null whether or not the topic has an entry)
clear_always(b, topic) == publish(b, topic, Null)

clear(b, topic) ==
  IF storeHas(b.store, topic) THEN publish(b, topic, Null) ELSE b

RECURSIVE clearEach(_, _)
\* keys.forEach(clear): a throwing clear ends the loop
clearEach(b, keys) ==
  IF keys = <<>>
    THEN b
    ELSE LET b1 == clear(b, Head(keys))
         IN  IF b1.err # "" THEN b1 ELSE clearEach(b1, Tail(keys))

clearAll(b) == clearEach(b, storeKeys(b.store))

---------------------------------------------------------------------------
(* The Subscription Index *)

\* (an index that lets a subscriber of any other kind pass, unregistered)
addSub_ignoresOthers(b, s) ==
  LET subscriber == b.subs[s]
  IN  IF subscriber.topic.kind = "string"
        THEN LET b1 == IF subscriber.topic.src \notin DOMAIN b.topics
                         THEN warn(b, "subscribe: non-configured topic")
                         ELSE b
             IN  [b1 EXCEPT !.stringSubs[subscriber.topic.src] =
                               getStringSubsFor(b1, subscriber.topic.src) \o <<s>>]
        ELSE IF subscriber.topic.kind = "regexp"
          THEN LET matchCount == Cardinality({n \in DOMAIN b.topics :
                                     regexMatch(n, subscriber.topic.src)})
                   b1 == IF matchCount = 0
                           THEN warn(b, "subscribe: RegExp matches no configured topics")
                           ELSE b
               IN  [b1 EXCEPT !.regexSubs = Append(@, s)]
          ELSE b

addSub(b, s) ==
  LET subscriber == b.subs[s]
  IN  IF subscriber.topic.kind = "string"
        THEN LET b1 == IF subscriber.topic.src \notin DOMAIN b.topics
                         THEN warn(b, "subscribe: non-configured topic")
                         ELSE b
             IN  [b1 EXCEPT !.stringSubs[subscriber.topic.src] =
                               getStringSubsFor(b1, subscriber.topic.src) \o <<s>>]
        ELSE IF subscriber.topic.kind = "regexp"
          THEN LET matchCount == Cardinality({n \in DOMAIN b.topics :
                                     regexMatch(n, subscriber.topic.src)})
                   b1 == IF matchCount = 0
                           THEN warn(b, "subscribe: RegExp matches no configured topics")
                           ELSE b
               IN  [b1 EXCEPT !.regexSubs = Append(@, s)]
          ELSE throw(b, "Unable to add subscriber")

\* (a removal that forgets the pattern subscriptions)
removeSub_stringsOnly(b, s) ==
  LET subscriber == b.subs[s]
      isOther(x) == x # s
  IN  IF subscriber.topic.kind = "string"
        THEN [b EXCEPT !.stringSubs[subscriber.topic.src] =
                          SelectSeq(getStringSubsFor(b, subscriber.topic.src), isOther)]
        ELSE b

\* (a removal of every subscription with the handler and the topic of the
\* one given)
removeSub_byHandler(b, s) ==
  LET subscriber == b.subs[s]
      isOther(x) == \/ b.subs[x].handler # subscriber.handler
                    \/ b.subs[x].topic # subscriber.topic
  IN  IF subscriber.topic.kind = "string"
        THEN [b EXCEPT !.stringSubs[subscriber.topic.src] =
                          SelectSeq(getStringSubsFor(b, subscriber.topic.src), isOther)]
        ELSE IF subscriber.topic.kind = "regexp"
          THEN [b EXCEPT !.regexSubs = SelectSeq(@, isOther)]
          ELSE b

\* (a removal by position, list.splice(list.indexOf(sub), 1): a subscriber
\* that is not in the list has position -1, and the last one is taken out)
removeSub_splice(b, s) ==
  LET subscriber == b.subs[s]
      isOther(x) == x # s
      spliced(list) == IF \E i \in 1..Len(list) : list[i] = s
                         THEN SelectSeq(list, isOther)
                         ELSE SubSeq(list, 1, Len(list) - 1)
  IN  IF subscriber.topic.kind = "string"
        THEN [b EXCEPT !.stringSubs[subscriber.topic.src] =
                          spliced(getStringSubsFor(b, subscriber.topic.src))]
        ELSE IF subscriber.topic.kind = "regexp"
          THEN [b EXCEPT !.regexSubs = spliced(@)]
          ELSE b

removeSub(b, s) ==
  LET subscriber == b.subs[s]
      isOther(x) == x # s
  IN  IF subscriber.topic.kind = "string"
        THEN [b EXCEPT !.stringSubs[subscriber.topic.src] =
                          SelectSeq(getStringSubsFor(b, subscriber.topic.src), isOther)]
        ELSE IF subscriber.topic.kind = "regexp"
          THEN [b EXCEPT !.regexSubs = SelectSeq(@, isOther)]
          ELSE b

\* The subscription object subscribe builds from its second and third
\* arguments: a bare handler function, or a configuration object of which
\* only the allowed keys are copied.
newSubscription(topic, handler, def) ==
  LET kept == IF handler.type = "function"
                THEN {"topic", "default", "handler"}
                ELSE (handler.has \cap ALLOWED_SUB_PROPS) \cup {"topic"}
      from(key, filler) == IF handler.type = "function" \/ key \notin kept
                             THEN filler ELSE handler[key]
  IN  [has |-> kept,
       topic |-> topic,
       handler |-> IF handler.type = "function" THEN handler.handler
                                                 ELSE from("handler", Undef),
       default |-> IF handler.type = "function" THEN def ELSE from("default", Undef),
       doPrime |-> from("doPrime", FALSE),
       allowRepeats |-> from("allowRepeats", FALSE),
       eventOnly |-> from("eventOnly", FALSE),
       lastVal |-> Undef,
       lastTopic |-> Undef]

\* (a priming that stops after the first stored item)
primeEach_firstOnly(b, s, stored) ==
  IF stored = <<>>
    THEN b
    ELSE LET item == Head(stored)
             subscription == b.subs[s]
             topicConfig == getTopicConfig(b, item.topic)
             doPrime == IF "doPrime" \in subscription.has THEN subscription.doPrime
                                                          ELSE topicConfig.doPrime
         IN  IF doPrime /\ (topicConfig.eventOnly \/ isSet(item.val))
               THEN scheduleCall(b, s, item.val, item.topic)
               ELSE b

RECURSIVE primeEach_valuesOnly(_, _, _)
\* (a priming that asks for a set value on every topic, event-only or not)
primeEach_valuesOnly(b, s, stored) ==
  IF stored = <<>>
    THEN b
    ELSE LET item == Head(stored)
             subscription == b.subs[s]
             topicConfig == getTopicConfig(b, item.topic)
             doPrime == IF "doPrime" \in subscription.has THEN subscription.doPrime
                                                          ELSE topicConfig.doPrime
             b1 == IF doPrime /\ isSet(item.val)
                     THEN scheduleCall(b, s, item.val, item.topic)
                     ELSE b
         IN  primeEach_valuesOnly(b1, s, Tail(stored))

RECURSIVE primeEach_ignoresDoPrime(_, _, _)
\* (a priming that does not look at doPrime)
primeEach_ignoresDoPrime(b, s, stored) ==
  IF stored = <<>>
    THEN b
    ELSE LET item == Head(stored)
             topicConfig == getTopicConfig(b, item.topic)
             b1 == IF topicConfig.eventOnly \/ isSet(item.val)
                     THEN scheduleCall(b, s, item.val, item.topic)
                     ELSE b
         IN  primeEach_ignoresDoPrime(b1, s, Tail(stored))

RECURSIVE primeEach(_, _, _)
\* stored.forEach(item => ...): one priming decision per stored item
primeEach(b, s, stored) ==
  IF stored = <<>>
    THEN b
    ELSE LET item == Head(stored)
             subscription == b.subs[s]
             topicConfig == getTopicConfig(b, item.topic)
             doPrime == IF "doPrime" \in subscription.has THEN subscription.doPrime
                                                          ELSE topicConfig.doPrime
             b1 == IF doPrime /\ (topicConfig.eventOnly \/ isSet(item.val))
                     THEN scheduleCall(b, s, item.val, item.topic)
                     ELSE b
         IN  primeEach(b1, s, Tail(stored))

\* (a subscribe whose pattern priming also looks at the configured topics
\* that have no stored value)
subscribe_primesConfigured(b, topic, handler, def) ==
  LET s == Len(b.subs) + 1
      b1 == addSub([b EXCEPT !.subs = Append(@, newSubscription(topic, handler, def))], s)
      matching(key) == regexMatch(key, topic.src)
      configured(key) == key \in DOMAIN b1.topics /\ ~storeHas(b1.store, key)
      keys == SelectSeq(storeKeys(b1.store) \o SelectSeq(<<"t1", "t2">>, configured), matching)
      stored == IF topic.kind = "string"
                  THEN <<[topic |-> topic.src, val |-> currentVal(b1, topic.src, def)]>>
                  ELSE [i \in 1..Len(keys) |->
                          [topic |-> keys[i], val |-> currentVal(b1, keys[i], def)]]
  IN  IF b1.err # ""
        THEN throw(b, b1.err)
        ELSE primeEach(b1, s, stored)

subscribe(b, topic, handler, def) ==
  LET s == Len(b.subs) + 1
      b1 == addSub([b EXCEPT !.subs = Append(@, newSubscription(topic, handler, def))], s)
      matching(key) == regexMatch(key, topic.src)
      keys == SelectSeq(storeKeys(b1.store), matching)
      stored == IF topic.kind = "string"
                  THEN <<[topic |-> topic.src, val |-> currentVal(b1, topic.src, def)]>>
                  ELSE [i \in 1..Len(keys) |->
                          [topic |-> keys[i], val |-> currentVal(b1, keys[i], def)]]
  IN  IF b1.err # ""
        THEN throw(b, b1.err)   \* the object just built is unreachable: no state change
        ELSE primeEach(b1, s, stored)

\* The function subscribe returns
unsubscribe(b, s) == [removeSub(b, s) EXCEPT !.unsubbed[s] = @ + 1]

---------------------------------------------------------------------------
(* The Topic Registry *)

\* (a registration that does not ask for a name)
addTopic_noNameCheck(b, newTopicConfig) ==
  LET topic == buildConfig(DEFAULT_TOPIC_CONFIG, newTopicConfig)
      b1 == IF topic.name \in DOMAIN b.topics
              THEN warn(b, "addTopic: topic has already been configured")
              ELSE b
  IN  [b1 EXCEPT !.topics =
         [n \in DOMAIN b.topics \cup {topic.name} |->
            IF n = topic.name THEN topic ELSE b.topics[n]]]

addTopic(b, newTopicConfig) ==
  LET topic == buildConfig(DEFAULT_TOPIC_CONFIG, newTopicConfig)
      b1 == IF topic.name \in DOMAIN b.topics
              THEN warn(b, "addTopic: topic has already been configured")
              ELSE b
      defaultValidationResult == validatorResult(topic.validator, topic.default)
      \* defaultValidationResult.valid: reading a property of null or undefined throws
      b2 == IF ~isDefined(topic.default)
              THEN b1
              ELSE IF defaultValidationResult \in {"null", "undefined"}
                THEN throw(b1, "TypeError")
                ELSE IF ~validOf(defaultValidationResult)
                  THEN warn(b1, "addTopic: default does not pass validation")
                  ELSE b1
  IN  IF topic.name = ""
        THEN throw(b, "Topics must have a name.")
        ELSE IF b2.err # ""
          THEN b2
          ELSE [b2 EXCEPT !.topics =
                  [n \in DOMAIN b.topics \cup {topic.name} |->
                     IF n = topic.name THEN topic ELSE b.topics[n]]]

RECURSIVE addTopics_skipsFailures(_, _)
\* (a loop that goes on with the next topic after a failure)
addTopics_skipsFailures(b, newTopicConfigs) ==
  IF newTopicConfigs = <<>>
    THEN b
    ELSE LET b1 == addTopic([b EXCEPT !.err = ""], Head(newTopicConfigs))
             b2 == addTopics_skipsFailures(IF b1.err # "" THEN b ELSE b1, Tail(newTopicConfigs))
         IN  IF b1.err # "" /\ b.err = "" /\ b2.err = "" THEN throw(b2, b1.err) ELSE b2

RECURSIVE addTopics(_, _)
\* topics.forEach(addTopic): a throwing addTopic ends the loop
addTopics(b, newTopicConfigs) ==
  IF newTopicConfigs = <<>>
    THEN b
    ELSE LET b1 == addTopic(b, Head(newTopicConfigs))
         IN  IF b1.err # "" THEN b1 ELSE addTopics(b1, Tail(newTopicConfigs))

\* configure(userConfig): userConfig is [has, showWarnings, topics]
configure(b, userConfig) ==
  LET b1 == IF "showWarnings" \in userConfig.has
              THEN [b EXCEPT !.config.showWarnings = userConfig.showWarnings]
              ELSE b
  IN  IF "topics" \in userConfig.has THEN addTopics(b1, userConfig.topics) ELSE b1

---------------------------------------------------------------------------
(* The Topic Registry of class Pubst. The class keeps the same state in     *)
(* private fields; its addTopic reports through this.warn, and the class   *)
(* has only the private method #warn, so the call throws a TypeError.      *)

\* this.warn(...): this.warn is undefined
Pubst_warn(b, message) == throw(b, "TypeError")

Pubst_addTopic(b, newTopicConfig) ==
  LET topic == buildConfig(DEFAULT_TOPIC_CONFIG, newTopicConfig)
      b1 == IF topic.name \in DOMAIN b.topics
              THEN Pubst_warn(b, "addTopic: topic has already been configured")
              ELSE b
      defaultValidationResult == validatorResult(topic.validator, topic.default)
      b2 == IF b1.err # "" \/ ~isDefined(topic.default)
              THEN b1
              ELSE IF defaultValidationResult \in {"null", "undefined"}
                THEN throw(b1, "TypeError")
                ELSE IF ~validOf(defaultValidationResult)
                  THEN Pubst_warn(b1, "addTopic: default does not pass validation")
                  ELSE b1
  IN  IF topic.name = ""
        THEN throw(b, "Topics must have a name.")
        ELSE IF b2.err # ""
          THEN b2
          ELSE [b2 EXCEPT !.topics =
                  [n \in DOMAIN b.topics \cup {topic.name} |->
                     IF n = topic.name THEN topic ELSE b.topics[n]]]

RECURSIVE Pubst_addTopics(_, _)
Pubst_addTopics(b, newTopicConfigs) ==
  IF newTopicConfigs = <<>>
    THEN b
    ELSE LET b1 == Pubst_addTopic(b, Head(newTopicConfigs))
         IN  IF b1.err # "" THEN b1 ELSE Pubst_addTopics(b1, Tail(newTopicConfigs))

Pubst_configure(b, userConfig) ==
  LET b1 == IF "showWarnings" \in userConfig.has
              THEN [b EXCEPT !.config.showWarnings = userConfig.showWarnings]
              ELSE b
  IN  IF "topics" \in userConfig.has THEN Pubst_addTopics(b1, userConfig.topics) ELSE b1

---------------------------------------------------------------------------
(* Inputs *)

Payloads == {Undef, Null, "a", "b"}

\* a topic configuration object as the caller writes it
TopicInput(n, keys, def, ev, prime, rep, val) ==
  [has |-> {"name"} \cup keys, name |-> n, default |-> def, eventOnly |-> ev,
   doPrime |-> prime, allowRepeats |-> rep, validator |-> val]

PlainTopic(n) == TopicInput(n, {}, Undef, FALSE, TRUE, FALSE, "everythingIsAwesome")

DefaultTopic(n) == TopicInput(n, {"default"}, "d", FALSE, TRUE, FALSE, "everythingIsAwesome")

EventTopic(n, rep, val) ==
  TopicInput(n, {"eventOnly", "allowRepeats", "validator"}, Undef, TRUE, TRUE, rep, val)

RepeatsTopic(n) ==
  TopicInput(n, {"allowRepeats"}, Undef, FALSE, TRUE, TRUE, "everythingIsAwesome")

NoPrimeTopic(n) ==
  TopicInput(n, {"doPrime", "default"}, "d", FALSE, FALSE, FALSE, "everythingIsAwesome")

ValidatedTopic(n, def, val) ==
  TopicInput(n, IF def = Undef THEN {"validator"} ELSE {"validator", "default"},
             def, FALSE, TRUE, FALSE, val)

\* a configuration object without the key `name`, and one with an empty name
NamelessTopic ==
  [has |-> {"default"}, name |-> "", default |-> "d", eventOnly |-> FALSE,
   doPrime |-> TRUE, allowRepeats |-> FALSE, validator |-> "everythingIsAwesome"]

EmptyNameTopic == TopicInput("", {"doPrime"}, Undef, FALSE, FALSE, FALSE, "everythingIsAwesome")

\* the argument of configure and of the constructor
UserConfig(show, topicConfigs) ==
  [has |-> {"showWarnings", "topics"}, showWarnings |-> show, topics |-> topicConfigs]

\* the first argument of subscribe: a string, a RegExp, or something else
StringMatcher(n) == [kind |-> "string", src |-> n]

RegExpMatcher(re) == [kind |-> "regexp", src |-> re]

OtherMatcher == [kind |-> "other", src |-> "42"]

\* the second argument of subscribe: a handler function or a configuration object
HandlerFn(h) ==
  [type |-> "function", has |-> {}, handler |-> h, default |-> Undef,
   doPrime |-> FALSE, allowRepeats |-> FALSE, eventOnly |-> FALSE]

HandlerObj(h, keys, def, prime, rep, ev) ==
  [type |-> "object", has |-> {"handler"} \cup keys, handler |-> h, default |-> def,
   doPrime |-> prime, allowRepeats |-> rep, eventOnly |-> ev]

\* a subscribe call: [topic, handler, def]
SubscribeInput(m, h, d) == [topic |-> m, handler |-> h, def |-> d]

---------------------------------------------------------------------------
(* The state machine *)

OpKinds ==
  {"publish", "subscribe", "unsubscribe", "clear", "clearAll", "currentVal",
   "addTopic", "addTopics", "configure"}

\* The broker when the module is loaded (or the class field initialisers ran)
EmptyBroker ==
  [store |-> <<>>, topics |-> [n \in {} |-> DEFAULT_TOPIC_CONFIG],
   stringSubs |-> [n \in TopicNames |-> <<>>], regexSubs |-> <<>>, subs |-> <<>>,
   queue |-> <<>>, calls |-> <<>>, config |-> [showWarnings |-> TRUE],
   warnings |-> <<>>, err |-> "", unsubbed |-> <<>>]

\* What a facade call found when it was made
Snapshot(b) ==
  [store |-> b.store, topics |-> b.topics, stringSubs |-> b.stringSubs,
   regexSubs |-> b.regexSubs, subs |-> b.subs, queue |-> b.queue,
   calls |-> b.calls, config |-> b.config, unsubbed |-> b.unsubbed]

\* a call that takes no configuration object
NoInput == [type |-> "none", has |-> {}]

NoOp ==
  [seq |-> 0, op |-> "none", topic |-> "", kind |-> "", arg |-> "", sub |-> 0,
   err |-> "", warnings |-> <<>>, enq |-> <<>>, result |-> "", drained |-> FALSE,
   input |-> NoInput, pre |-> Snapshot(EmptyBroker)]

\* constructor(userConfig) { this.configure(userConfig) }
constructor(userConfig) == configure(EmptyBroker, userConfig)

\* The broker right after construction with one of the given configurations
InitWith(userConfigs) ==
  \E userConfig \in userConfigs :
    LET b == constructor(userConfig)
    IN  /\ b.err = ""
        /\ store = b.store
        /\ topics = b.topics
        /\ stringSubs = b.stringSubs
        /\ regexSubs = b.regexSubs
        /\ subs = b.subs
        /\ queue = b.queue
        /\ calls = b.calls
        /\ config = b.config
        /\ unsubbed = b.unsubbed
        /\ lastOp = NoOp
        /\ prevOp = NoOp
        /\ count = [k \in OpKinds |-> 0]

\* The broker right after a construction that gave one of the given brokers
InitFrom(brokers) ==
  \E b \in brokers :
    /\ b.err = ""
    /\ store = b.store
    /\ topics = b.topics
    /\ stringSubs = b.stringSubs
    /\ regexSubs = b.regexSubs
    /\ subs = b.subs
    /\ queue = b.queue
    /\ calls = b.calls
    /\ config = b.config
    /\ unsubbed = b.unsubbed
    /\ lastOp = NoOp
    /\ prevOp = NoOp
    /\ count = [k \in OpKinds |-> 0]

\* The facade call `op` took the broker to r: r becomes the state, and the
\* call is recorded with its arguments and what it enqueued, warned and threw.
CommitWith(r, op, topic, kind, arg, s, result, input) ==
  /\ store' = r.store
  /\ topics' = r.topics
  /\ stringSubs' = r.stringSubs
  /\ regexSubs' = r.regexSubs
  /\ subs' = r.subs
  /\ queue' = r.queue
  /\ calls' = r.calls
  /\ config' = r.config
  /\ unsubbed' = r.unsubbed
  /\ count' = [count EXCEPT ![op] = @ + 1]
  /\ prevOp' = lastOp
  /\ lastOp' = [seq |-> lastOp.seq + 1, op |-> op, topic |-> topic, kind |-> kind,
                arg |-> arg, sub |-> s, err |-> r.err, warnings |-> r.warnings,
                enq |-> SubSeq(r.queue, Len(queue) + 1, Len(r.queue)),
                result |-> result, drained |-> FALSE, input |-> input,
                pre |-> Snapshot(Broker)]

Commit(r, op, topic, kind, arg, s, result) ==
  CommitWith(r, op, topic, kind, arg, s, result, NoInput)

Publish(names, payloads, max) ==
  /\ count["publish"] < max
  /\ \E topic \in names, payload \in payloads :
       Commit(publish(Broker, topic, payload), "publish", topic, "", payload, 0, "")

Subscribe(inputs, max) ==
  /\ count["subscribe"] < max
  /\ \E in \in inputs :
       LET r == subscribe(Broker, in.topic, in.handler, in.def)
           \* a subscription exists, and its unsubscribe function is returned,
           \* only when subscribe did not throw
           r1 == IF r.err = "" THEN [r EXCEPT !.unsubbed = Append(@, 0)] ELSE r
       IN  CommitWith(r1, "subscribe", in.topic.src, in.topic.kind, in.def,
                      IF r.err = "" THEN Len(r.subs) ELSE 0, "", in.handler)

Unsubscribe(max) ==
  \E s \in 1..Len(subs) :
    /\ unsubbed[s] < max
    /\ Commit(unsubscribe(Broker, s), "unsubscribe", subs[s].topic.src,
              subs[s].topic.kind, "", s, "")

Clear(names, max) ==
  /\ count["clear"] + count["clearAll"] < max
  /\ \E topic \in names :
       Commit(clear(Broker, topic), "clear", topic, "", "", 0, "")

ClearAll(max) ==
  /\ count["clear"] + count["clearAll"] < max
  /\ Commit(clearAll(Broker), "clearAll", "", "", "", 0, "")

CurrentVal(names, defs, max) ==
  /\ count["currentVal"] < max
  /\ \E topic \in names, def \in defs :
       Commit(Broker, "currentVal", topic, "", def, 0, currentVal(Broker, topic, def))

AddTopic(inputs, max) ==
  /\ count["addTopic"] < max
  /\ \E newTopicConfig \in inputs :
       CommitWith(addTopic(Broker, newTopicConfig), "addTopic", newTopicConfig.name,
                  "", "", 0, "", newTopicConfig)

\* addTopics(newTopicConfigs): the call is recorded with the array it was given
AddTopics(inputs, max) ==
  /\ count["addTopics"] < max
  /\ \E newTopicConfigs \in inputs :
       CommitWith(addTopics(Broker, newTopicConfigs), "addTopics", "", "", "", 0, "",
                  [type |-> "array", has |-> {}, configs |-> newTopicConfigs])

\* addTopic of class Pubst
PubstAddTopic(inputs, max) ==
  /\ count["addTopic"] < max
  /\ \E newTopicConfig \in inputs :
       CommitWith(Pubst_addTopic(Broker, newTopicConfig), "addTopic",
                  newTopicConfig.name, "", "", 0, "", newTopicConfig)

\* One timer fires: the oldest pending callback runs
Drain ==
  /\ queue # <<>>
  /\ LET r == runTask([Broker EXCEPT !.queue = Tail(@)], Head(queue))
     IN  /\ subs' = r.subs
         /\ queue' = r.queue
         /\ calls' = r.calls
         /\ store' = r.store
         /\ topics' = r.topics
         /\ stringSubs' = r.stringSubs
         /\ regexSubs' = r.regexSubs
         /\ config' = r.config
         /\ unsubbed' = r.unsubbed
  /\ lastOp' = [lastOp EXCEPT !.drained = TRUE]
  /\ UNCHANGED <<prevOp, count>>

---------------------------------------------------------------------------
(* The broker under its basic workload: one topic may be configured at      *)
(* construction, then subscribers come and go while values are published.  *)

MaxPublish == 3
MaxSubscribe == 1
MaxUnsubscribe == 1
MaxClear == 1
MaxCurrentVal == 1

SpecConfigs ==
  { UserConfig(FALSE, <<>>),
    UserConfig(FALSE, <<DefaultTopic("t1")>>),
    UserConfig(FALSE, <<EventTopic("t1", FALSE, "rejectObj")>>),
    UserConfig(FALSE, <<EventTopic("t1", TRUE, "everythingIsAwesome")>>),
    UserConfig(FALSE, <<ValidatedTopic("t1", Undef, "onlyA")>>),
    UserConfig(FALSE, <<ValidatedTopic("t1", Undef, "onlyAOrFalse")>>) }

SpecSubscribes ==
  { SubscribeInput(StringMatcher("t1"), HandlerFn("h1"), Undef),
    SubscribeInput(StringMatcher("t1"), HandlerFn("h1"), "e"),
    SubscribeInput(StringMatcher("t1"),
                   HandlerObj("h1", {"default"}, "e", FALSE, FALSE, FALSE), Undef),
    SubscribeInput(RegExpMatcher("t"), HandlerFn("h1"), Undef) }

Init == InitWith(SpecConfigs)

Next ==
  \/ Publish({"t1"}, Payloads, MaxPublish)
  \/ Subscribe(SpecSubscribes, MaxSubscribe)
  \/ Unsubscribe(MaxUnsubscribe)
  \/ Clear({"t1"}, MaxClear)
  \/ Drain

Spec == Init /\ [][Next]_vars

---------------------------------------------------------------------------
(* Every facade operation at once, on a smaller workload: topics are        *)
(* (re)configured while the broker runs, and clearAll is used.             *)

MaxFacadePublish == 2
MaxFacadeAddTopic == 1

FacadeConfigs ==
  { UserConfig(FALSE, <<>>), UserConfig(FALSE, <<DefaultTopic("t1")>>) }

FacadeSubscribes ==
  { SubscribeInput(StringMatcher("t1"), HandlerFn("h1"), "e"),
    SubscribeInput(RegExpMatcher("t"), HandlerFn("h1"), Undef) }

FacadeAddTopics == {DefaultTopic("t1"), EventTopic("t1", FALSE, "everythingIsAwesome")}

InitFacade == InitWith(FacadeConfigs)

NextFacade ==
  \/ Publish({"t1"}, {Null, "a"}, MaxFacadePublish)
  \/ Subscribe(FacadeSubscribes, MaxSubscribe)
  \/ Unsubscribe(MaxUnsubscribe)
  \/ Clear({"t1"}, MaxClear)
  \/ ClearAll(MaxClear)
  \/ AddTopic(FacadeAddTopics, MaxFacadeAddTopic)
  \/ Drain

SpecFacade == InitFacade /\ [][NextFacade]_vars

---------------------------------------------------------------------------
(* Reading the current value: stored values, topic defaults and the         *)
(* caller's default in every combination.                                  *)

CurrentValConfigs ==
  { UserConfig(FALSE, <<>>), UserConfig(FALSE, <<DefaultTopic("t1")>>),
    UserConfig(FALSE, <<ValidatedTopic("t1", Null, "everythingIsAwesome")>>) }

InitCurrentVal == InitWith(CurrentValConfigs)

NextCurrentVal ==
  \/ Publish({"t1"}, Payloads, MaxFacadePublish)
  \/ Subscribe(FacadeSubscribes, MaxSubscribe)
  \/ CurrentVal({"t1"}, {Undef, Null, "e"}, MaxCurrentVal)
  \/ Drain

SpecCurrentVal == InitCurrentVal /\ [][NextCurrentVal]_vars

---------------------------------------------------------------------------
(* Two topics and up to two subscribers, by exact name and by pattern: who  *)
(* is told of what, and clearAll over a store with several entries.        *)

MaxTopicsPublish == 2
MaxTopicsSubscribe == 2
MaxTopicsClear == 1

TopicsConfigs ==
  { UserConfig(FALSE, <<>>),
    UserConfig(FALSE, <<ValidatedTopic("t1", Undef, "onlyA"), DefaultTopic("t2")>>),
    UserConfig(FALSE, <<EventTopic("t1", FALSE, "everythingIsAwesome")>>) }

TopicsSubscribes ==
  { SubscribeInput(StringMatcher("t1"), HandlerFn("h1"), Undef),
    SubscribeInput(StringMatcher("t2"), HandlerFn("h2"), Undef),
    SubscribeInput(RegExpMatcher("1"), HandlerFn("h1"), Undef),
    SubscribeInput(RegExpMatcher("t"), HandlerFn("h2"), Undef),
    SubscribeInput(RegExpMatcher("t"), HandlerFn("h2"), "e"),
    SubscribeInput(RegExpMatcher("t"),
                   HandlerObj("h2", {"default"}, "e", FALSE, FALSE, FALSE), Undef) }

InitTopics == InitWith(TopicsConfigs)

NextTopics ==
  \/ Publish(TopicNames, {Null, "a"}, MaxTopicsPublish)
  \/ Subscribe(TopicsSubscribes, MaxTopicsSubscribe)
  \/ ClearAll(MaxTopicsClear)
  \/ Drain

SpecTopics == InitTopics /\ [][NextTopics]_vars

---------------------------------------------------------------------------
(* Subscriptions made with a configuration object that overrides the       *)
(* topic's settings, on topics configured each way.                        *)

MaxOverridesPublish == 3

OverridesConfigs ==
  { UserConfig(FALSE, <<>>),
    UserConfig(FALSE, <<DefaultTopic("t1")>>),
    UserConfig(FALSE, <<NoPrimeTopic("t1")>>),
    UserConfig(FALSE, <<RepeatsTopic("t1")>>),
    UserConfig(FALSE, <<EventTopic("t1", FALSE, "everythingIsAwesome")>>) }

OverridesSubscribes ==
  { SubscribeInput(StringMatcher("t1"), HandlerFn("h1"), Undef),
    SubscribeInput(StringMatcher("t1"),
                   HandlerObj("h1", {"doPrime"}, Undef, FALSE, FALSE, FALSE), Undef),
    SubscribeInput(StringMatcher("t1"),
                   HandlerObj("h1", {"doPrime"}, Undef, TRUE, FALSE, FALSE), Undef),
    SubscribeInput(StringMatcher("t1"),
                   HandlerObj("h1", {"allowRepeats"}, Undef, FALSE, TRUE, FALSE), Undef),
    SubscribeInput(StringMatcher("t1"),
                   HandlerObj("h1", {"allowRepeats"}, Undef, FALSE, FALSE, FALSE), Undef),
    SubscribeInput(StringMatcher("t1"),
                   HandlerObj("h1", {"eventOnly"}, Undef, FALSE, FALSE, TRUE), Undef),
    SubscribeInput(StringMatcher("t1"),
                   HandlerObj("h1", {"eventOnly"}, Undef, FALSE, FALSE, FALSE), Undef) }

InitOverrides == InitWith(OverridesConfigs)

NextOverrides ==
  \/ Publish({"t1"}, {"a", "b"}, MaxOverridesPublish)
  \/ Subscribe(OverridesSubscribes, MaxSubscribe)
  \/ Drain

SpecOverrides == InitOverrides /\ [][NextOverrides]_vars

---------------------------------------------------------------------------
(* Topics registered, and registered again, while the broker is in use:    *)
(* once with the module's addTopic and once with class Pubst's.            *)

MaxRegistryAddTopic == 2
MaxRegistryPublish == 1

RegistryConfigs ==
  { UserConfig(TRUE, <<>>),
    UserConfig(FALSE, <<DefaultTopic("t1")>>),
    UserConfig(TRUE, <<NoPrimeTopic("t1"), PlainTopic("t2")>>) }

RegistryAddTopics ==
  { NamelessTopic, EmptyNameTopic, PlainTopic("t1"), DefaultTopic("t1"),
    RepeatsTopic("t1"), EventTopic("t2", TRUE, "rejectObj") }

RegistrySubscribes ==
  { SubscribeInput(StringMatcher("t1"), HandlerFn("h1"), Undef),
    SubscribeInput(RegExpMatcher("t"), HandlerFn("h1"), "e") }

InitRegistry == InitWith(RegistryConfigs)

NextRegistry ==
  \/ AddTopic(RegistryAddTopics, MaxRegistryAddTopic)
  \/ Publish({"t1"}, {"a"}, MaxRegistryPublish)
  \/ Subscribe(RegistrySubscribes, MaxSubscribe)
  \/ Drain

SpecRegistry == InitRegistry /\ [][NextRegistry]_vars

InitPubst == InitFrom({Pubst_configure(EmptyBroker, userConfig) : userConfig \in RegistryConfigs})

NextPubst ==
  \/ PubstAddTopic(RegistryAddTopics, MaxRegistryAddTopic)
  \/ Publish({"t1"}, {"a"}, MaxRegistryPublish)
  \/ Subscribe(RegistrySubscribes, MaxSubscribe)
  \/ Drain

SpecPubst == InitPubst /\ [][NextPubst]_vars

---------------------------------------------------------------------------
(* Topics registered one at a time and several at a time, some of them     *)
(* with a default their own validator does not accept.                     *)

MaxDefaultsAddTopic == 1
MaxDefaultsAddTopics == 2
MaxDefaultsPublish == 1

DefaultsConfigs ==
  { UserConfig(TRUE, <<>>),
    UserConfig(FALSE, <<PlainTopic("t1")>>) }

\* validators that accept the default "d" and validators that reject it in
\* each of the ways a validator can
DefaultsValidators ==
  {"everythingIsAwesome", "rejectObj", "rejectFalse", "onlyA", "returnsNull",
   "returnsUndefined"}

DefaultsAddTopic == {ValidatedTopic("t1", "d", validator) : validator \in DefaultsValidators}

DefaultsAddTopics ==
  { <<>>,
    <<PlainTopic("t1"), DefaultTopic("t2")>>,
    <<DefaultTopic("t1"), RepeatsTopic("t1")>>,
    <<PlainTopic("t1"), NamelessTopic, DefaultTopic("t2")>>,
    <<DefaultTopic("t2"), ValidatedTopic("t1", "d", "returnsNull"), RepeatsTopic("t2")>>,
    <<ValidatedTopic("t2", "d", "rejectObj"), NoPrimeTopic("t1")>>,
    <<EmptyNameTopic, PlainTopic("t2")>> }

InitDefaults == InitWith(DefaultsConfigs)

NextDefaults ==
  \/ AddTopic(DefaultsAddTopic, MaxDefaultsAddTopic)
  \/ AddTopics(DefaultsAddTopics, MaxDefaultsAddTopics)
  \/ Publish(TopicNames, {"a"}, MaxDefaultsPublish)
  \/ Subscribe(RegistrySubscribes, MaxSubscribe)
  \/ Drain

SpecDefaults == InitDefaults /\ [][NextDefaults]_vars

---------------------------------------------------------------------------
(* Several subscriptions to one topic, by name and by pattern, added and   *)
(* removed (some of them more than once) between publishes.                *)

MaxIndexSubscribe == 3
MaxIndexUnsubscribe == 2
MaxIndexPublish == 1

IndexConfigs == { UserConfig(FALSE, <<PlainTopic("t1")>>) }

IndexSubscribes ==
  { SubscribeInput(StringMatcher("t1"), HandlerFn("h1"), Undef),
    SubscribeInput(RegExpMatcher("t"), HandlerFn("h1"), Undef),
    SubscribeInput(RegExpMatcher("1"), HandlerFn("h2"), Undef),
    SubscribeInput(RegExpMatcher("2"), HandlerFn("h2"), Undef),
    SubscribeInput(OtherMatcher, HandlerFn("h1"), Undef) }

InitIndex == InitWith(IndexConfigs)

NextIndex ==
  \/ Subscribe(IndexSubscribes, MaxIndexSubscribe)
  \/ Unsubscribe(MaxIndexUnsubscribe)
  \/ Publish({"t1"}, {"a"}, MaxIndexPublish)
  \/ Drain

SpecIndex == InitIndex /\ [][NextIndex]_vars

---------------------------------------------------------------------------
(* The timers do fire: a pending callback is not left waiting for ever.    *)
(* The facade calls are the caller's to make or not, so only the run of    *)
(* the oldest pending callback is fair.                                    *)

MaxFairPublish == 2
MaxFairSubscribe == 2
MaxFairUnsubscribe == 1

FairConfigs ==
  { UserConfig(FALSE, <<>>), UserConfig(FALSE, <<DefaultTopic("t1")>>) }

FairSubscribes ==
  { SubscribeInput(StringMatcher("t1"), HandlerFn("h1"), Undef),
    SubscribeInput(RegExpMatcher("t"), HandlerFn("h2"), "e") }

InitFair == InitWith(FairConfigs)

NextFair ==
  \/ Publish({"t1"}, {"a", "b"}, MaxFairPublish)
  \/ Subscribe(FairSubscribes, MaxFairSubscribe)
  \/ Unsubscribe(MaxFairUnsubscribe)
  \/ Drain

SpecFair == InitFair /\ [][NextFair]_vars /\ WF_vars(Drain)

---------------------------------------------------------------------------
(* Subscribing, by name and by pattern, to topics that were or were not     *)
(* published, that are event-only, have a default, or have priming off.     *)

MaxPrimingPublish == 2
MaxPrimingSubscribe == 1
MaxPrimingClear == 1

PrimingConfigs ==
  { UserConfig(FALSE, <<>>),
    UserConfig(FALSE, <<EventTopic("t1", FALSE, "everythingIsAwesome"), DefaultTopic("t2")>>),
    UserConfig(FALSE, <<NoPrimeTopic("t1"), RepeatsTopic("t2")>>) }

PrimingSubscribes ==
  { SubscribeInput(StringMatcher("t1"), HandlerFn("h1"), Undef),
    SubscribeInput(StringMatcher("t1"), HandlerFn("h1"), "e"),
    SubscribeInput(StringMatcher("t1"),
                   HandlerObj("h1", {"doPrime"}, Undef, FALSE, FALSE, FALSE), Undef),
    SubscribeInput(StringMatcher("t1"),
                   HandlerObj("h1", {"doPrime"}, Undef, TRUE, FALSE, FALSE), Undef),
    SubscribeInput(StringMatcher("t2"), HandlerFn("h1"), Undef),
    SubscribeInput(RegExpMatcher("t"), HandlerFn("h1"), Undef),
    SubscribeInput(RegExpMatcher("t"), HandlerFn("h1"), "e"),
    SubscribeInput(RegExpMatcher("t"),
                   HandlerObj("h1", {"doPrime"}, Undef, TRUE, FALSE, FALSE), Undef) }

InitPriming == InitWith(PrimingConfigs)

NextPriming ==
  \/ Publish(TopicNames, {Undef, Null, "a"}, MaxPrimingPublish)
  \/ Subscribe(PrimingSubscribes, MaxPrimingSubscribe)
  \/ Clear(TopicNames, MaxPrimingClear)
  \/ Drain

SpecPriming == InitPriming /\ [][NextPriming]_vars

---------------------------------------------------------------------------
(* A pattern subscriber, and one by name, notified of publishes to two      *)
(* topics in turn.                                                          *)

MaxPatternPublish == 3

PatternConfigs ==
  { UserConfig(FALSE, <<>>),
    UserConfig(FALSE, <<RepeatsTopic("t2")>>) }

PatternSubscribes ==
  { SubscribeInput(RegExpMatcher("t"), HandlerFn("h1"), Undef),
    SubscribeInput(StringMatcher("t1"), HandlerFn("h1"), Undef) }

InitPattern == InitWith(PatternConfigs)

NextPattern ==
  \/ Publish(TopicNames, {"a", "b"}, MaxPatternPublish)
  \/ Subscribe(PatternSubscribes, MaxSubscribe)
  \/ Drain

SpecPattern == InitPattern /\ [][NextPattern]_vars

---------------------------------------------------------------------------
(* Every facade operation, with warnings shown, on topics of which some     *)
(* are not configured; a topic is cleared more than once.                   *)

MaxFramePublish == 1
MaxFrameClear == 2

FrameConfigs == { UserConfig(TRUE, <<RepeatsTopic("t2")>>) }

FrameSubscribes ==
  { SubscribeInput(StringMatcher("t1"), HandlerFn("h1"), Undef),
    SubscribeInput(RegExpMatcher("t"), HandlerFn("h1"), Undef) }

InitFrame == InitWith(FrameConfigs)

NextFrame ==
  \/ Publish(TopicNames, {"a"}, MaxFramePublish)
  \/ Subscribe(FrameSubscribes, MaxSubscribe)
  \/ Unsubscribe(MaxUnsubscribe)
  \/ Clear(TopicNames, MaxFrameClear)
  \/ ClearAll(MaxFrameClear)
  \/ CurrentVal({"t1"}, {Undef}, MaxCurrentVal)
  \/ AddTopic({PlainTopic("t1")}, MaxFacadeAddTopic)
  \/ AddTopics({<<PlainTopic("t1")>>}, MaxFacadeAddTopic)
  \/ Drain

SpecFrame == InitFrame /\ [][NextFrame]_vars

---------------------------------------------------------------------------
(* What the claims speak of *)

\* the deliveries behind a sequence of handler invocations
TasksOf(cs) ==
  [i \in 1..Len(cs) |-> [sub |-> cs[i].sub, value |-> cs[i].value, topic |-> cs[i].topic]]

\* the deliveries a facade call enqueued for subscription s
EnqFor(op, s) == SelectSeq(op.enq, LAMBDA t : t.sub = s)

Range(seq) == {seq[i] : i \in 1..Len(seq)}

SubIds == 1..Len(subs)

\* the subscriptions registered for topic T in a broker state
ExactSubs(b, T) == Range(b.stringSubs[T])

PatternSubs(b, T) == {s \in Range(b.regexSubs) : regexMatch(T, b.subs[s].topic.src)}

Matching(b, T) == ExactSubs(b, T) \cup PatternSubs(b, T)

\* the settings in force for subscription s on topic T
EffDefault(b, s, T) ==
  IF isDefined(b.subs[s].default) THEN b.subs[s].default ELSE getTopicConfig(b, T).default

EffAllowRepeats(b, s, T) ==
  IF "allowRepeats" \in b.subs[s].has THEN b.subs[s].allowRepeats
                                      ELSE getTopicConfig(b, T).allowRepeats

EffEventOnly(b, s, T) ==
  IF "eventOnly" \in b.subs[s].has THEN b.subs[s].eventOnly
                                   ELSE getTopicConfig(b, T).eventOnly

EffDoPrime(b, s, T) ==
  IF "doPrime" \in b.subs[s].has THEN b.subs[s].doPrime ELSE getTopicConfig(b, T).doPrime

\* the value a delivery of raw value p on topic T hands to subscription s
Resolved(b, s, T, p) ==
  IF EffEventOnly(b, s, T) THEN T
  ELSE IF isSet(p) THEN p
  ELSE IF isDefined(EffDefault(b, s, T)) THEN EffDefault(b, s, T)
  ELSE p

Delivery(s, v, T) == [sub |-> s, value |-> v, topic |-> T]

\* a publish that returned normally; the state right after a facade call
Published(op) == op.op = "publish" /\ op.err = ""

JustCalled == ~lastOp.drained

\* the part of the broker a call can change, as it is now
Now == Snapshot(Broker)

\* Every delivery ever enqueued is, in order, either a handler invocation
\* that took place with the captured value and topic, or still pending.
DeliveriesKept ==
  TasksOf(calls) \o queue = TasksOf(lastOp.pre.calls) \o lastOp.pre.queue \o lastOp.enq

---------------------------------------------------------------------------
(* C1 *)

\* two publishes to one topic with no drain between them, seen by an exact
\* subscriber s of the topic, with distinct delivered values
Batch(s) ==
  /\ Published(prevOp) /\ Published(lastOp)
  /\ prevOp.topic = lastOp.topic
  /\ ~prevOp.drained
  /\ s \in ExactSubs(prevOp.pre, lastOp.topic)
  /\ Resolved(prevOp.pre, s, prevOp.topic, prevOp.arg)
       # Resolved(lastOp.pre, s, lastOp.topic, lastOp.arg)

BatchDelivered(s) ==
  /\ EnqFor(prevOp, s) =
       <<Delivery(s, Resolved(prevOp.pre, s, prevOp.topic, prevOp.arg), prevOp.topic)>>
  /\ EnqFor(lastOp, s) =
       <<Delivery(s, Resolved(lastOp.pre, s, lastOp.topic, lastOp.arg), lastOp.topic)>>

\* neither value of the batch is the one last delivered to s on the topic,
\* unless s takes repeats
NotLastDelivered(s) ==
  \/ EffAllowRepeats(prevOp.pre, s, lastOp.topic)
  \/ prevOp.pre.subs[s].lastTopic # lastOp.topic
  \/ prevOp.pre.subs[s].lastVal \notin
       { Resolved(prevOp.pre, s, prevOp.topic, prevOp.arg),
         Resolved(lastOp.pre, s, lastOp.topic, lastOp.arg) }

---------------------------------------------------------------------------
(* C2 *)

\* the same value published twice in a row to a topic with repeats off, seen
\* by an exact subscriber s of the topic
Repeat(s) ==
  /\ Published(prevOp) /\ Published(lastOp)
  /\ prevOp.topic = lastOp.topic
  /\ prevOp.arg = lastOp.arg
  /\ s \in ExactSubs(prevOp.pre, lastOp.topic)
  /\ s \in ExactSubs(lastOp.pre, lastOp.topic)
  /\ ~EffEventOnly(lastOp.pre, s, lastOp.topic)
  /\ ~EffAllowRepeats(lastOp.pre, s, lastOp.topic)

\* C2 as stated: the two publishes give the subscriber exactly one delivery,
\* wherever the drains fall (also with none between the two publishes).
C2_RepeatSuppressed ==
  \A s \in SubIds :
    Repeat(s) => Len(EnqFor(prevOp, s)) + Len(EnqFor(lastOp, s)) = 1

---------------------------------------------------------------------------
(* C3 *)

\* the validator of topic T, as configured in broker state b, is run on
\* payload p and rejects it
Rejected(b, T, p) ==
  /\ ~getTopicConfig(b, T).eventOnly
  /\ validatorResult(getTopicConfig(b, T).validator, p)
       \in {"validFalse", "false", "null", "undefined"}

\* C3: a publish whose payload the topic's validator rejects fails and
\* leaves the store, the index, the delivery state and the queue as they
\* were; currentVal still gives the prior value and nothing is delivered.
C3_ValidationGate ==
  (lastOp.op = "publish" /\ Rejected(lastOp.pre, lastOp.topic, lastOp.arg)) =>
    /\ lastOp.err # ""
    /\ lastOp.enq = <<>>
    /\ store = lastOp.pre.store
    /\ stringSubs = lastOp.pre.stringSubs
    /\ regexSubs = lastOp.pre.regexSubs
    /\ JustCalled => Now = lastOp.pre
    /\ DeliveriesKept
    /\ \A def \in {Undef, Null, "e"} :
         currentVal(Broker, lastOp.topic, def) = currentVal(lastOp.pre, lastOp.topic, def)

\* a rejected publish on a topic that holds a value and has a subscriber
C3_Witness ==
  /\ lastOp.op = "publish" /\ Rejected(lastOp.pre, lastOp.topic, lastOp.arg)
  /\ lastOp.err # ""
  /\ isSet(storeGet(lastOp.pre.store, lastOp.topic))
  /\ Matching(lastOp.pre, lastOp.topic) # {}

---------------------------------------------------------------------------
(* C4 *)

\* a subscribe on an exact topic that is not event-only, with priming on
PrimingSubscribe ==
  /\ lastOp.op = "subscribe" /\ lastOp.err = "" /\ lastOp.kind = "string"
  /\ ~getTopicConfig(lastOp.pre, lastOp.topic).eventOnly
  /\ EffDoPrime(Now, lastOp.sub, lastOp.topic)

\* C4 as stated: subscribe with priming enqueues, inside the call, one
\* delivery of the stored value when it is set, and of the subscriber's own
\* default when the stored value is null or absent, whether that default
\* came as the third argument or in the configuration object.
C4_PrimedWithOwnDefault ==
  PrimingSubscribe =>
    LET storedVal == storeGet(lastOp.pre.store, lastOp.topic)
        own == subs[lastOp.sub].default
    IN  /\ isSet(storedVal) =>
             lastOp.enq = <<Delivery(lastOp.sub, storedVal, lastOp.topic)>>
        /\ (isNotSet(storedVal) /\ isSet(own)) =>
             lastOp.enq = <<Delivery(lastOp.sub, own, lastOp.topic)>>

---------------------------------------------------------------------------
(* C5 *)

\* C5: once a subscription's unsubscribe function has been called, no
\* publish or clear enqueues a delivery for it (exact or pattern), and the
\* unsubscribe call itself retracts nothing: what was enqueued still runs.
C5_Unsubscribe ==
  /\ \A s \in DOMAIN lastOp.pre.unsubbed :
       (lastOp.op \in {"publish", "clear", "clearAll"} /\ lastOp.pre.unsubbed[s] > 0)
         => EnqFor(lastOp, s) = <<>>
  /\ lastOp.op = "unsubscribe" =>
       /\ lastOp.err = "" /\ lastOp.enq = <<>>
       /\ DeliveriesKept
       /\ JustCalled => (queue = lastOp.pre.queue /\ calls = lastOp.pre.calls)
       /\ \A T \in TopicNames : lastOp.sub \notin Matching(Now, T)

\* a pattern subscription was unsubscribed with a delivery pending; the
\* delivery ran, and a later publish to a topic it matched passed it by
C5_Witness ==
  \E s \in DOMAIN lastOp.pre.unsubbed :
    /\ Published(lastOp) /\ lastOp.pre.unsubbed[s] > 0
    /\ prevOp.op = "unsubscribe" /\ prevOp.sub = s /\ prevOp.kind = "regexp"
    /\ \E i \in 1..Len(prevOp.pre.queue) : prevOp.pre.queue[i].sub = s
    /\ queue = <<>>
    /\ \E i \in 1..Len(calls) : calls[i].sub = s

---------------------------------------------------------------------------
(* C6 *)

\* C6: no handler is invoked while a facade call executes: when the call
\* returns, the handler invocations are those that had taken place before.
C6_NoSynchronousDelivery == JustCalled => calls = lastOp.pre.calls

\* a facade call that enqueued a delivery has just returned
C6_Witness == JustCalled /\ lastOp.enq # <<>> /\ lastOp.op \in {"subscribe", "clearAll"}

---------------------------------------------------------------------------
(* C7 *)

\* C7: a publish to a topic configured eventOnly enqueues exactly one
\* delivery for every matching subscription, whatever the payload and
\* whatever allowRepeats is, and the value handed over is the topic name.
C7_EventOnly ==
  (lastOp.op = "publish" /\ getTopicConfig(lastOp.pre, lastOp.topic).eventOnly) =>
    /\ \A s \in Matching(lastOp.pre, lastOp.topic) :
         EnqFor(lastOp, s) = <<Delivery(s, lastOp.topic, lastOp.topic)>>
    /\ \A i \in 1..Len(lastOp.enq) : lastOp.enq[i].value = lastOp.topic

\* an event-only publish delivered again to a subscriber whose last
\* delivery was the same event, on a topic that does not allow repeats
C7_Witness ==
  /\ lastOp.op = "publish" /\ count["publish"] = 3
  /\ getTopicConfig(lastOp.pre, lastOp.topic).eventOnly
  /\ ~getTopicConfig(lastOp.pre, lastOp.topic).allowRepeats
  /\ \E s \in Matching(lastOp.pre, lastOp.topic) :
       /\ lastOp.pre.subs[s].lastVal = lastOp.topic
       /\ lastOp.pre.subs[s].lastTopic = lastOp.topic
       /\ EnqFor(lastOp, s) # <<>>

---------------------------------------------------------------------------
(* C8 *)

\* a publish, or a clear of a topic that has an entry, that returned
\* normally on a topic that is not event-only; and the raw value it sent
Sent ==
  /\ lastOp.err = ""
  /\ \/ lastOp.op = "publish"
     \/ lastOp.op = "clear" /\ storeHas(lastOp.pre.store, lastOp.topic)
  /\ ~getTopicConfig(lastOp.pre, lastOp.topic).eventOnly

RawValue == IF lastOp.op = "clear" THEN Null ELSE lastOp.arg

\* C8 as stated: the handler receives the raw value when it is neither null
\* nor undefined, otherwise the effective default (the subscription's own
\* when defined, else the topic's), whatever that is.
C8_AsStated ==
  Sent =>
    \A i \in 1..Len(lastOp.enq) :
      lastOp.enq[i].value =
        IF isSet(RawValue) THEN RawValue
        ELSE EffDefault(lastOp.pre, lastOp.enq[i].sub, lastOp.topic)

\* C8 amended: otherwise the effective default when one is defined, and the
\* raw value itself (null or undefined) when none is.
C8_DeliveredValue ==
  Sent =>
    \A i \in 1..Len(lastOp.enq) :
      LET def == EffDefault(lastOp.pre, lastOp.enq[i].sub, lastOp.topic)
      IN  lastOp.enq[i].value =
            IF isSet(RawValue) THEN RawValue
            ELSE IF isDefined(def) THEN def
            ELSE RawValue

\* a clear delivered to a subscriber that brought its own default in a
\* configuration object, on a topic that has a default too
C8_Witness ==
  /\ Sent /\ lastOp.op = "clear"
  /\ prevOp.op = "subscribe" /\ prevOp.err = "" /\ prevOp.arg = Undef
  /\ subs[prevOp.sub].default = "e"
  /\ isDefined(getTopicConfig(lastOp.pre, lastOp.topic).default)
  /\ lastOp.enq = <<Delivery(prevOp.sub, "e", lastOp.topic)>>

---------------------------------------------------------------------------
(* C9 *)

\* C9: currentVal(topic, defaultValue) returns the stored value when it is
\* set; otherwise defaultValue when that is defined (null included), else
\* the topic's configured default when defined, else the stored value
\* itself; and it changes no broker state.
C9_CurrentVal ==
  lastOp.op = "currentVal" =>
    LET storedVal == storeGet(lastOp.pre.store, lastOp.topic)
        topicDefault == IF lastOp.topic \in DOMAIN lastOp.pre.topics
                          THEN lastOp.pre.topics[lastOp.topic].default
                          ELSE Undef
    IN  /\ lastOp.result =
             IF isSet(storedVal) THEN storedVal
             ELSE IF isDefined(lastOp.arg) THEN lastOp.arg
             ELSE IF isDefined(topicDefault) THEN topicDefault
             ELSE storedVal
        /\ lastOp.err = "" /\ lastOp.enq = <<>>
        /\ JustCalled => Now = lastOp.pre
        /\ DeliveriesKept

\* currentVal fell back to the topic's default on a topic cleared to null
C9_Witness ==
  /\ lastOp.op = "currentVal" /\ lastOp.arg = Undef
  /\ storeGet(lastOp.pre.store, lastOp.topic) = Null
  /\ lastOp.result = "d"
  /\ lastOp.pre.queue # <<>>

---------------------------------------------------------------------------
(* C10 *)

\* C10: clear of a topic that has no Value Store entry changes nothing and
\* enqueues nothing, whatever defaults the topic or its subscribers have.
C10_ClearUnpublished ==
  (lastOp.op = "clear" /\ ~storeHas(lastOp.pre.store, lastOp.topic)) =>
    /\ lastOp.err = "" /\ lastOp.enq = <<>>
    /\ store = lastOp.pre.store
    /\ JustCalled => Now = lastOp.pre
    /\ DeliveriesKept

\* such a clear on a topic with a default and a subscriber with its own
C10_Witness ==
  /\ lastOp.op = "clear" /\ ~storeHas(lastOp.pre.store, lastOp.topic)
  /\ isDefined(getTopicConfig(lastOp.pre, lastOp.topic).default)
  /\ \E s \in Matching(lastOp.pre, lastOp.topic) : lastOp.pre.subs[s].default = "e"
  /\ queue = <<>> /\ lastOp.drained

---------------------------------------------------------------------------
(* C11 *)

\* the broker a facade call found, ready for another call
Restore(snap) ==
  [store |-> snap.store, topics |-> snap.topics, stringSubs |-> snap.stringSubs,
   regexSubs |-> snap.regexSubs, subs |-> snap.subs, queue |-> snap.queue,
   calls |-> snap.calls, config |-> snap.config, warnings |-> <<>>, err |-> "",
   unsubbed |-> snap.unsubbed]

ClearedEntry == lastOp.op = "clear" /\ storeHas(lastOp.pre.store, lastOp.topic)

\* C11: clear of a topic that has a Value Store entry has the outcome of
\* publish(topic, null) from the same state: when the validator rejects null
\* it fails and changes nothing; otherwise the entry becomes null and every
\* matching subscription is handed its effective default (null when it has
\* none, the topic name on an event-only topic) unless the delivery is a
\* suppressed repeat.
C11_ClearIsPublishNull ==
  ClearedEntry =>
    LET T == lastOp.topic
        pre == lastOp.pre
        r == publish(Restore(pre), T, Null)
    IN  /\ lastOp.err = r.err
        /\ lastOp.warnings = r.warnings
        /\ lastOp.enq = SubSeq(r.queue, Len(pre.queue) + 1, Len(r.queue))
        /\ JustCalled => Now = Snapshot(r)
        /\ Rejected(pre, T, Null) =>
             /\ lastOp.err # "" /\ lastOp.enq = <<>>
             /\ store = pre.store
             /\ JustCalled => Now = pre
        /\ ~Rejected(pre, T, Null) =>
             /\ lastOp.err = ""
             /\ store = storeSet(pre.store, T, Null)
             /\ \A s \in Matching(pre, T) :
                  \/ EnqFor(lastOp, s) = <<Delivery(s, Resolved(pre, s, T, Null), T)>>
                  \/ /\ EnqFor(lastOp, s) = <<>>
                     /\ ~EffEventOnly(pre, s, T) /\ ~EffAllowRepeats(pre, s, T)
                     /\ pre.subs[s].lastVal = Resolved(pre, s, T, Null)
                     /\ pre.subs[s].lastTopic = T
             /\ \A i \in 1..Len(lastOp.enq) : lastOp.enq[i].sub \in Matching(pre, T)

\* a clear refused by the validator of a topic that holds a value and has a
\* subscriber with a delivery pending
C11_Witness ==
  /\ ClearedEntry /\ JustCalled
  /\ Rejected(lastOp.pre, lastOp.topic, Null)
  /\ isSet(storeGet(lastOp.pre.store, lastOp.topic))
  /\ Matching(lastOp.pre, lastOp.topic) # {}
  /\ lastOp.pre.queue # <<>>
  /\ lastOp.err # ""

---------------------------------------------------------------------------
(* C12 *)

\* C12 as stated: after clearAll every topic that had a Value Store entry
\* when it was called holds null, whatever the topics' configurations.
C12_ClearAllClearsAll ==
  lastOp.op = "clearAll" =>
    \A T \in TopicNames :
      storeHas(lastOp.pre.store, T) => storeGet(store, T) = Null

---------------------------------------------------------------------------
(* C13 *)

\* the deliveries a facade call enqueued for subscription s on topic K
EnqOn(op, s, K) == SelectSeq(op.enq, LAMBDA t : t.sub = s /\ t.topic = K)

\* a delivery of payload p on topic T that repeat suppression withholds from s
Suppressed(b, s, T, p) ==
  /\ ~EffEventOnly(b, s, T) /\ ~EffAllowRepeats(b, s, T)
  /\ b.subs[s].lastVal = Resolved(b, s, T, p)
  /\ b.subs[s].lastTopic = T

\* the current value of topic K as a subscriber with third argument def finds it
ResolvedCurrent(b, K, def) ==
  LET storedVal == storeGet(b.store, K)
      topicDefault == getTopicConfig(b, K).default
  IN  IF isSet(storedVal) THEN storedVal
      ELSE IF isDefined(def) THEN def
      ELSE IF isDefined(topicDefault) THEN topicDefault
      ELSE storedVal

PatternSubscribe == lastOp.op = "subscribe" /\ lastOp.kind = "regexp" /\ lastOp.err = ""

---------------------------------------------------------------------------
(* C14 *)

\* subscription s, as registered, is for topic T
Routes(s, T) ==
  \/ subs[s].topic.kind = "string" /\ subs[s].topic.src = T
  \/ subs[s].topic.kind = "regexp" /\ regexMatch(T, subs[s].topic.src)

\* C14: a handler is invoked, and a delivery enqueued, with topic T only if
\* the subscription's exact topic is T or its pattern matches T; a publish to
\* T enqueues nothing for an exact subscription of another topic; and the
\* topic handed to the handler is the published topic's name, never the
\* pattern.
C14_Routing ==
  /\ \A i \in 1..Len(calls) :
       /\ Routes(calls[i].sub, calls[i].topic)
       /\ calls[i].topic \in TopicNames
       /\ calls[i].handler = subs[calls[i].sub].handler
  /\ \A i \in 1..Len(queue) :
       Routes(queue[i].sub, queue[i].topic) /\ queue[i].topic \in TopicNames
  /\ lastOp.op = "publish" =>
       /\ \A i \in 1..Len(lastOp.enq) : lastOp.enq[i].topic = lastOp.topic
       /\ \A s \in 1..Len(lastOp.pre.subs) :
            ~Routes(s, lastOp.topic) => EnqFor(lastOp, s) = <<>>

\* a publish to t2 reached the pattern subscriber alone, the exact
\* subscriber of t1 being passed by, and the handler was then invoked
C14_Witness ==
  /\ lastOp.op = "publish" /\ lastOp.topic = "t2" /\ lastOp.drained
  /\ \E s1, s2 \in 1..Len(lastOp.pre.subs) :
       /\ subs[s1].topic = StringMatcher("t1") /\ s1 \in Matching(lastOp.pre, "t1")
       /\ subs[s2].topic = RegExpMatcher("t") /\ s2 \in Matching(lastOp.pre, "t2")
       /\ lastOp.enq = <<Delivery(s2, "a", "t2")>>
       /\ \E i \in 1..Len(calls) : calls[i].sub = s2 /\ calls[i].topic = "t2"

---------------------------------------------------------------------------
(* C15 *)

\* the flag `key` in force for a subscribe call: the configuration
\* object's own when it carries the key, else the topic's
Chosen(input, topicConfig, key) ==
  IF input.type = "object" /\ key \in input.has THEN input[key] ELSE topicConfig[key]

ExactSubscribe == lastOp.op = "subscribe" /\ lastOp.kind = "string" /\ lastOp.err = ""

\* the delivery of payload p on T would repeat what s was last handed
IsRepeat(b, s, T, p) ==
  b.subs[s].lastVal = Resolved(b, s, T, p) /\ b.subs[s].lastTopic = T

\* C15: a subscription's own doPrime or allowRepeats, when its
\* configuration object carries the key, is used instead of the topic's;
\* without the key, or with a bare handler, the topic's value is used.
\* So subscribe primes exactly when the chosen doPrime is true and there is
\* something to prime with, and a repeated value is delivered exactly when
\* the chosen allowRepeats is true.
C15_Overrides ==
  /\ ExactSubscribe =>
       LET T == lastOp.topic
           topicConfig == getTopicConfig(lastOp.pre, T)
           primable == topicConfig.eventOnly
                         \/ isSet(ResolvedCurrent(lastOp.pre, T, lastOp.arg))
       IN  /\ (lastOp.enq # <<>>) <=>
                (Chosen(lastOp.input, topicConfig, "doPrime") /\ primable)
           /\ EffDoPrime(Now, lastOp.sub, T) = Chosen(lastOp.input, topicConfig, "doPrime")
           /\ EffAllowRepeats(Now, lastOp.sub, T) =
                Chosen(lastOp.input, topicConfig, "allowRepeats")
  /\ Published(lastOp) =>
       \A s \in Matching(lastOp.pre, lastOp.topic) :
         (IsRepeat(lastOp.pre, s, lastOp.topic, lastOp.arg)
            /\ ~getTopicConfig(lastOp.pre, lastOp.topic).eventOnly)
           => ((EnqFor(lastOp, s) # <<>>) <=> EffAllowRepeats(lastOp.pre, s, lastOp.topic))

\* a subscription that set allowRepeats true on a topic that does not allow
\* repeats was handed the value it had just been handed
C15_Witness ==
  /\ Published(lastOp)
  /\ ~getTopicConfig(lastOp.pre, lastOp.topic).allowRepeats
  /\ ~getTopicConfig(lastOp.pre, lastOp.topic).eventOnly
  /\ \E s \in Matching(lastOp.pre, lastOp.topic) :
       /\ "allowRepeats" \in lastOp.pre.subs[s].has
       /\ IsRepeat(lastOp.pre, s, lastOp.topic, lastOp.arg)
       /\ EnqFor(lastOp, s) = <<Delivery(s, lastOp.arg, lastOp.topic)>>

---------------------------------------------------------------------------
(* C16 *)

\* a publish right after a subscribe whose configuration object carried
\* the key eventOnly
PublishAfterEventOnlyKey ==
  /\ Published(lastOp) /\ lastOp.seq = prevOp.seq + 1
  /\ prevOp.op = "subscribe" /\ prevOp.err = "" /\ prevOp.kind = "string"
  /\ prevOp.topic = lastOp.topic
  /\ prevOp.input.type = "object" /\ "eventOnly" \in prevOp.input.has

\* C16 as stated: a subscription whose configuration object carries
\* eventOnly true is handed the topic name on every publish to a topic that
\* is not event-only, and one carrying eventOnly false on an event-only topic
\* is handed the resolved payload.
C16_EventOnlyOverride ==
  PublishAfterEventOnlyKey =>
    LET s == prevOp.sub
        T == lastOp.topic
        value == IF isSet(lastOp.arg) THEN lastOp.arg
                 ELSE IF isDefined(EffDefault(lastOp.pre, s, T))
                   THEN EffDefault(lastOp.pre, s, T)
                 ELSE lastOp.arg
    IN  /\ prevOp.input.eventOnly => EnqFor(lastOp, s) = <<Delivery(s, T, T)>>
        /\ (~prevOp.input.eventOnly /\ ~IsRepeat(lastOp.pre, s, T, lastOp.arg))
             => EnqFor(lastOp, s) = <<Delivery(s, value, T)>>

---------------------------------------------------------------------------
(* C18 *)

\* C18: a publish that returns normally has written its payload to the
\* Value Store, whatever was stored, and has enqueued one delivery for each
\* matching subscription that allows repeats.
C18_NoShortCircuit ==
  Published(lastOp) =>
    /\ storeHas(store, lastOp.topic)
    /\ storeGet(store, lastOp.topic) = lastOp.arg
    /\ \A s \in Matching(lastOp.pre, lastOp.topic) :
         EffAllowRepeats(lastOp.pre, s, lastOp.topic) =>
           EnqFor(lastOp, s) =
             <<Delivery(s, Resolved(lastOp.pre, s, lastOp.topic, lastOp.arg), lastOp.topic)>>

\* the stored value was published a third time, with no drain since the
\* second, to a subscriber that allows repeats: three deliveries are pending
C18_Witness ==
  /\ Published(lastOp) /\ Published(prevOp) /\ ~prevOp.drained /\ JustCalled
  /\ prevOp.arg = lastOp.arg
  /\ storeGet(prevOp.pre.store, lastOp.topic) = lastOp.arg
  /\ \E s \in Matching(lastOp.pre, lastOp.topic) :
       /\ EffAllowRepeats(lastOp.pre, s, lastOp.topic)
       /\ s \in Matching(prevOp.pre, lastOp.topic)
       /\ Len(SelectSeq(queue, LAMBDA t : t.sub = s /\ t.value = lastOp.arg)) = 3

---------------------------------------------------------------------------
(* C17 *)

\* The broker's whole history is: subscribe to T by a bare handler with no
\* default, drain, publish(T, v) with v set, drain, clear(T), drain; T is
\* configured with a default d other than v and is otherwise as built in.
SubscribePublishClear ==
  /\ lastOp.op = "clear" /\ lastOp.seq = 3 /\ lastOp.err = ""
  /\ lastOp.drained /\ queue = <<>>
  /\ prevOp.op = "publish" /\ prevOp.seq = 2 /\ prevOp.err = ""
  /\ prevOp.topic = lastOp.topic /\ isSet(prevOp.arg)
  /\ prevOp.pre.queue = <<>> /\ lastOp.pre.queue = <<>>
  /\ prevOp.pre.store = <<>>
  /\ Len(prevOp.pre.subs) = 1
  /\ subs[1].topic = StringMatcher(lastOp.topic)
  /\ isUndefined(subs[1].default)
  /\ {"doPrime", "allowRepeats", "eventOnly"} \cap subs[1].has = {}
  /\ lastOp.topic \in DOMAIN topics
  /\ LET topicConfig == topics[lastOp.topic]
     IN  /\ isSet(topicConfig.default) /\ topicConfig.default # prevOp.arg
         /\ topicConfig.doPrime /\ ~topicConfig.allowRepeats /\ ~topicConfig.eventOnly

\* C17: after subscribe, drain, publish(T, v), drain, clear(T), drain on a
\* topic with default d the handler has been invoked exactly three times,
\* with (d, T), then (v, T), then (d, T).
C17_DefaultAgainAfterClear ==
  SubscribePublishClear =>
    LET T == lastOp.topic
        d == topics[T].default
    IN  TasksOf(calls) = <<Delivery(1, d, T), Delivery(1, prevOp.arg, T), Delivery(1, d, T)>>

C17_Witness == SubscribePublishClear /\ Len(calls) = 3 /\ calls[3].value = "d"

---------------------------------------------------------------------------
(* C19 *)

\* an addTopic whose configuration object has no name, or an empty one
NamelessAddTopic ==
  lastOp.op = "addTopic" /\ ("name" \notin lastOp.input.has \/ lastOp.input.name = "")

\* C19: addTopic with a missing or empty name fails with an error and
\* leaves the Topic Registry and the rest of the broker as they were.
C19_NameRequired ==
  NamelessAddTopic =>
    /\ lastOp.err = "Topics must have a name."
    /\ topics = lastOp.pre.topics
    /\ lastOp.enq = <<>>
    /\ JustCalled => Now = lastOp.pre
    /\ DeliveriesKept

\* the configuration object had no name key at all, other topics being
\* registered and a delivery pending
C19_Witness ==
  /\ NamelessAddTopic /\ "name" \notin lastOp.input.has /\ JustCalled
  /\ DOMAIN topics # {} /\ queue # <<>>
  /\ lastOp.err # ""

---------------------------------------------------------------------------
(* C20 *)

\* the configuration a topic configuration object stands for
Merged(input) ==
  [key \in DOMAIN DEFAULT_TOPIC_CONFIG |->
     IF key \in input.has THEN input[key] ELSE DEFAULT_TOPIC_CONFIG[key]]

ReRegistered ==
  /\ lastOp.op = "addTopic" /\ "name" \in lastOp.input.has
  /\ lastOp.input.name \in DOMAIN lastOp.pre.topics

\* C20 as stated: addTopic with a name already in the Topic Registry
\* returns normally, having at most warned; the name's configuration is
\* then the new one merged over the built-in defaults, the other entries are
\* as they were, and no call ever removes an entry.
C20_ReRegister ==
  /\ DOMAIN lastOp.pre.topics \subseteq DOMAIN topics
  /\ ReRegistered =>
       /\ lastOp.err = ""
       /\ lastOp.warnings =
            IF lastOp.pre.config.showWarnings
              THEN <<"addTopic: topic has already been configured">>
              ELSE <<>>
       /\ topics[lastOp.input.name] = Merged(lastOp.input)
       /\ \A n \in DOMAIN lastOp.pre.topics \ {lastOp.input.name} :
            topics[n] = lastOp.pre.topics[n]
       /\ DOMAIN topics = DOMAIN lastOp.pre.topics

---------------------------------------------------------------------------
(* C21 *)

\* an addTopic of a named topic whose defined default its validator rejects
RejectedDefault ==
  /\ lastOp.op = "addTopic" /\ "name" \in lastOp.input.has /\ lastOp.input.name # ""
  /\ isDefined(Merged(lastOp.input).default)
  /\ LET result == validatorResult(Merged(lastOp.input).validator, Merged(lastOp.input).default)
     IN  ~truthy(result) \/ ~validOf(result)

\* C21 as stated: addTopic with a defined default that the topic's validator
\* rejects, in any of the ways publish treats as a failure, does not throw:
\* it warns (when warnings are shown) and the topic is registered with
\* that default.
C21_DefaultOnlyWarns ==
  RejectedDefault =>
    /\ lastOp.err = ""
    /\ lastOp.input.name \in DOMAIN topics
    /\ topics[lastOp.input.name] = Merged(lastOp.input)
    /\ lastOp.pre.config.showWarnings =>
         "addTopic: default does not pass validation" \in Range(lastOp.warnings)

---------------------------------------------------------------------------
(* C22 *)

\* the error addTopic throws for a configuration object, "" when it throws none
Thrown(input) ==
  IF "name" \notin input.has \/ input.name = ""
    THEN "Topics must have a name."
    ELSE IF /\ isDefined(Merged(input).default)
            /\ validatorResult(Merged(input).validator, Merged(input).default)
                 \in {"null", "undefined"}
      THEN "TypeError"
      ELSE ""

\* the position of the first configuration object addTopic fails on, one
\* past the end when it fails on none
FirstFailure(inputs) ==
  IF \E i \in 1..Len(inputs) : Thrown(inputs[i]) # ""
    THEN CHOOSE i \in 1..Len(inputs) :
           /\ Thrown(inputs[i]) # ""
           /\ \A j \in 1..(i - 1) : Thrown(inputs[j]) = ""
    ELSE Len(inputs) + 1

\* C22: addTopics applies addTopic to the configurations in order. When
\* addTopic fails on the k-th, its error is the error of addTopics, the
\* configurations before it are registered (a later one of the same name
\* over an earlier one) and those after it are not looked at; when none
\* fails all are registered. Nothing but the Topic Registry changes.
C22_AddTopics ==
  lastOp.op = "addTopics" =>
    LET inputs == lastOp.input.configs
        k == FirstFailure(inputs)
        Last(n) == CHOOSE i \in 1..(k - 1) :
                     /\ inputs[i].name = n
                     /\ \A j \in (i + 1)..(k - 1) : inputs[j].name # n
    IN  /\ lastOp.err = IF k <= Len(inputs) THEN Thrown(inputs[k]) ELSE ""
        /\ DOMAIN topics = DOMAIN lastOp.pre.topics \cup {inputs[i].name : i \in 1..(k - 1)}
        /\ \A n \in DOMAIN topics :
             topics[n] = IF \E i \in 1..(k - 1) : inputs[i].name = n
                           THEN Merged(inputs[Last(n)])
                           ELSE lastOp.pre.topics[n]
        /\ lastOp.enq = <<>>
        /\ JustCalled => [Now EXCEPT !.topics = lastOp.pre.topics] = lastOp.pre

\* addTopics failed on the second of three configurations: the first is
\* registered, the third is not
C22_Witness ==
  /\ lastOp.op = "addTopics" /\ lastOp.err # ""
  /\ Len(lastOp.input.configs) = 3 /\ FirstFailure(lastOp.input.configs) = 2
  /\ lastOp.input.configs[1].name \in DOMAIN topics
  /\ lastOp.input.configs[1].name \notin DOMAIN lastOp.pre.topics
  /\ lastOp.input.configs[3].name \notin DOMAIN topics

---------------------------------------------------------------------------
(* C23 *)

\* a publish to a topic that is configured event-only
EventPublish ==
  lastOp.op = "publish" /\ getTopicConfig(lastOp.pre, lastOp.topic).eventOnly

\* C23: a publish to an event-only topic returns normally whatever the
\* payload and whatever the topic's validator says of it; the payload is
\* then the topic's stored value and every matching subscription has a
\* delivery enqueued.
C23_EventsUnvalidated ==
  EventPublish =>
    /\ lastOp.err = ""
    /\ storeHas(store, lastOp.topic)
    /\ storeGet(store, lastOp.topic) = lastOp.arg
    /\ \A s \in Matching(lastOp.pre, lastOp.topic) : Len(EnqFor(lastOp, s)) = 1
    /\ Len(lastOp.enq) = Cardinality(Matching(lastOp.pre, lastOp.topic))

\* the validator of the event-only topic rejects the payload that was
\* published and stored, and a subscriber is notified
C23_Witness ==
  /\ EventPublish /\ JustCalled
  /\ validatorResult(getTopicConfig(lastOp.pre, lastOp.topic).validator, lastOp.arg)
       # "validTrue"
  /\ isSet(lastOp.arg) /\ storeGet(store, lastOp.topic) = lastOp.arg
  /\ lastOp.enq # <<>>

---------------------------------------------------------------------------
(* C24 *)

\* a call of the unsubscribe function of a subscription that had already
\* been called
RepeatedUnsubscribe ==
  lastOp.op = "unsubscribe" /\ lastOp.pre.unsubbed[lastOp.sub] >= 1

\* C24: a second or further call of a subscription's unsubscribe function
\* does not fail and changes nothing: the subscriptions registered by name
\* and by pattern, and their order, are as the call found them, and so is
\* the rest of the broker.
C24_UnsubscribeIdempotent ==
  RepeatedUnsubscribe =>
    /\ lastOp.err = ""
    /\ lastOp.enq = <<>>
    /\ stringSubs = lastOp.pre.stringSubs
    /\ regexSubs = lastOp.pre.regexSubs
    /\ \A T \in TopicNames : lastOp.sub \notin Matching(Now, T)
    /\ JustCalled => [Now EXCEPT !.unsubbed = lastOp.pre.unsubbed] = lastOp.pre

\* the second call for a subscription by name, two other subscriptions to
\* the same topic being registered; and the same for a pattern
C24_Witness ==
  /\ RepeatedUnsubscribe /\ JustCalled
  /\ \/ lastOp.kind = "string" /\ Len(stringSubs[lastOp.topic]) = 2
     \/ lastOp.kind = "regexp" /\ Len(regexSubs) = 2

---------------------------------------------------------------------------
(* C25 *)

\* a subscribe whose first argument is neither a string nor a RegExp
OtherSubscribe ==
  lastOp.op = "subscribe" /\ lastOp.kind \notin {"string", "regexp"}

\* C25: a subscribe with a matcher that is neither a topic name nor a
\* pattern fails with an error; no subscription is registered, no delivery
\* is enqueued and the broker is as the call found it.
C25_BadSubscriberType ==
  OtherSubscribe =>
    /\ lastOp.err = "Unable to add subscriber"
    /\ lastOp.enq = <<>>
    /\ Len(subs) = Len(lastOp.pre.subs)
    /\ stringSubs = lastOp.pre.stringSubs
    /\ regexSubs = lastOp.pre.regexSubs
    /\ JustCalled => Now = lastOp.pre
    /\ DeliveriesKept

\* the failed subscribe came when the topic held a value, a subscription
\* was registered and a delivery was pending
C25_Witness ==
  /\ OtherSubscribe /\ JustCalled
  /\ store # <<>> /\ queue # <<>>
  /\ \E T \in TopicNames : Matching(Now, T) # {}

---------------------------------------------------------------------------
(* C27 *)

\* the subscriptions of S in the order in which they were made
InOrder(b, S) == SelectSeq([i \in 1..Len(b.subs) |-> i], LAMBDA s : s \in S)

\* the subscriptions a publish to T notifies, in the order stated: those by
\* name, then those by pattern, each in subscription order
Notified(b, T) == InOrder(b, ExactSubs(b, T)) \o InOrder(b, PatternSubs(b, T))

\* C27: a publish to T enqueues its deliveries for the subscriptions to T
\* by name first, in subscription order, then for the matching pattern
\* subscriptions, in subscription order, and they run in that order; the
\* index keeps subscription order, and a removal takes one subscription out
\* without moving the others.
C27_NotificationOrder ==
  /\ \A T \in TopicNames : stringSubs[T] = InOrder(Now, ExactSubs(Now, T))
  /\ regexSubs = InOrder(Now, Range(regexSubs))
  /\ Published(lastOp) =>
       LET T == lastOp.topic
           kept == SelectSeq(Notified(lastOp.pre, T),
                             LAMBDA s : ~Suppressed(lastOp.pre, s, T, lastOp.arg))
       IN  /\ lastOp.enq = [i \in 1..Len(kept) |->
                              Delivery(kept[i], Resolved(lastOp.pre, kept[i], T, lastOp.arg), T)]
           /\ DeliveriesKept
  /\ lastOp.op = "unsubscribe" =>
       /\ \A T \in TopicNames :
            stringSubs[T] = SelectSeq(lastOp.pre.stringSubs[T], LAMBDA s : s # lastOp.sub)
       /\ regexSubs = SelectSeq(lastOp.pre.regexSubs, LAMBDA s : s # lastOp.sub)

\* after a removal, a publish notified a subscription by name ahead of a
\* pattern subscription made before it, and both deliveries ran in that order
C27_Witness ==
  /\ Published(lastOp) /\ prevOp.op = "unsubscribe"
  /\ Len(lastOp.enq) = 2 /\ lastOp.enq[1].sub > lastOp.enq[2].sub
  /\ lastOp.enq[1].sub \in ExactSubs(lastOp.pre, lastOp.topic)
  /\ queue = <<>> /\ TasksOf(calls) = lastOp.enq

---------------------------------------------------------------------------
(* C26 *)

\* the deliveries of subscription s among those of a sequence
For(s, tasks) == SelectSeq(tasks, LAMBDA t : t.sub = s)

\* the handler invocations of subscription s followed by its pending
\* deliveries, in a broker state
Course(b, s) == For(s, TasksOf(b.calls)) \o For(s, b.queue)

\* C26: the deliveries of one subscription run in the order in which they
\* were enqueued. What its handler has been and is still to be invoked with
\* is what it was before the last call, followed by what that call enqueued,
\* and so what the call before it enqueued comes earlier; each delivery of
\* a publish carries the published topic and the value resolved from the
\* payload; and nothing pending for the subscription is skipped by a run.
C26_Fifo ==
  \A s \in SubIds :
    /\ Course(Now, s) = Course(lastOp.pre, s) \o EnqFor(lastOp, s)
    /\ lastOp.seq >= 2 =>
         Course(Now, s) = Course(prevOp.pre, s) \o EnqFor(prevOp, s) \o EnqFor(lastOp, s)
    /\ (Published(lastOp) /\ s \in Matching(lastOp.pre, lastOp.topic)) =>
         \A i \in 1..Len(EnqFor(lastOp, s)) :
           EnqFor(lastOp, s)[i] =
             Delivery(s, Resolved(lastOp.pre, s, lastOp.topic, lastOp.arg), lastOp.topic)
    /\ Len(For(s, TasksOf(calls))) >= Len(For(s, TasksOf(lastOp.pre.calls)))

\* a subscriber was primed and two values were published before anything
\* ran, deliveries to another subscriber lying between its own; its handler
\* then saw the three values in that order
C26_Witness ==
  \E s \in SubIds :
    /\ \E other \in SubIds \ {s} : EnqFor(prevOp, other) # <<>> /\ EnqFor(lastOp, other) # <<>>
    /\ Published(prevOp) /\ Published(lastOp) /\ ~prevOp.drained
    /\ prevOp.pre.calls = <<>> /\ For(s, prevOp.pre.queue) # <<>>
    /\ EnqFor(prevOp, s) # <<>> /\ EnqFor(lastOp, s) # <<>>
    /\ prevOp.arg # lastOp.arg
    /\ queue = <<>>
    /\ For(s, TasksOf(calls)) = For(s, prevOp.pre.queue) \o EnqFor(prevOp, s) \o EnqFor(lastOp, s)

---------------------------------------------------------------------------
(* C28 *)

\* the warnings a publish to T gives rise to in broker state b
PublishWarnings(b, T) ==
  (IF T \notin DOMAIN b.topics THEN <<"publish: topic has not been configured">> ELSE <<>>)
  \o (IF Matching(b, T) = {} THEN <<"publish: no subscribers match">> ELSE <<>>)

\* C28: with showWarnings false no call emits a warning. A publish whose
\* payload the validator accepts returns normally and stores the payload
\* also when the topic is not configured or nothing subscribes to it; it
\* then enqueues nothing if nothing matches, and emits one warning for each
\* of the two conditions exactly when showWarnings is true.
C28_Warnings ==
  /\ ~lastOp.pre.config.showWarnings => lastOp.warnings = <<>>
  /\ (lastOp.op = "publish" /\ ~Rejected(lastOp.pre, lastOp.topic, lastOp.arg)) =>
       /\ lastOp.err = ""
       /\ storeHas(store, lastOp.topic) /\ storeGet(store, lastOp.topic) = lastOp.arg
       /\ Matching(lastOp.pre, lastOp.topic) = {} => lastOp.enq = <<>>
       /\ lastOp.warnings = IF lastOp.pre.config.showWarnings
                               THEN PublishWarnings(lastOp.pre, lastOp.topic)
                               ELSE <<>>

\* a publish to a topic that is not configured and has no subscriber, with
\* warnings shown: two warnings, and the payload is stored
C28_Witness ==
  /\ lastOp.op = "publish" /\ lastOp.err = "" /\ JustCalled
  /\ lastOp.pre.config.showWarnings
  /\ Len(lastOp.warnings) = 2
  /\ storeGet(store, lastOp.topic) = lastOp.arg

---------------------------------------------------------------------------
(* C29 *)

\* the handler invocations of subscription s so far
Invocations(s) == For(s, TasksOf(calls))

\* C29: a subscription's lastVal and lastTopic are both unset while its
\* handler has not been invoked, and are otherwise the value and topic of
\* its most recent invocation; a facade call leaves those of every
\* subscription as it found them, deliveries pending or not.
C29_DeliveryState ==
  /\ \A s \in SubIds :
       IF Invocations(s) = <<>>
         THEN subs[s].lastVal = Undef /\ subs[s].lastTopic = Undef
         ELSE /\ subs[s].lastVal = Invocations(s)[Len(Invocations(s))].value
              /\ subs[s].lastTopic = Invocations(s)[Len(Invocations(s))].topic
  /\ JustCalled =>
       \A s \in 1..Len(lastOp.pre.subs) :
         /\ subs[s].lastVal = lastOp.pre.subs[s].lastVal
         /\ subs[s].lastTopic = lastOp.pre.subs[s].lastTopic

\* a call has just enqueued, for a subscription whose handler has run
\* twice, a delivery of another value than the one it last received
C29_Witness ==
  \E s \in SubIds :
    /\ JustCalled /\ EnqFor(lastOp, s) # <<>>
    /\ Len(Invocations(s)) >= 2
    /\ Invocations(s)[1].value # Invocations(s)[2].value
    /\ EnqFor(lastOp, s)[1].value # subs[s].lastVal
    /\ subs[s].lastVal = Invocations(s)[Len(Invocations(s))].value

---------------------------------------------------------------------------
(* C30 *)

\* every delivery has run after a publish of a value that is set, the most
\* recent call, to a topic that is not event-only; s is a subscription to
\* the topic by name, not event-only, registered before the publish and still
Settled(s) ==
  /\ Published(lastOp) /\ queue = <<>>
  /\ isSet(storeGet(store, lastOp.topic))
  /\ s \in ExactSubs(lastOp.pre, lastOp.topic) /\ s \in ExactSubs(Now, lastOp.topic)
  /\ ~EffEventOnly(Now, s, lastOp.topic)

\* C30 as stated: once the queue is empty, the value of the last handler
\* invocation of such a subscription is the topic's stored value (the
\* subscriber does not hold a stale value).
C30_QuiescentConsistency ==
  \A s \in SubIds :
    Settled(s) =>
      /\ Invocations(s) # <<>>
      /\ Invocations(s)[Len(Invocations(s))].value = storeGet(store, lastOp.topic)

---------------------------------------------------------------------------
(* C31 *)

\* the deliveries ever enqueued, in the order in which they were: those
\* that have run and those still pending
Enqueued == TasksOf(calls) \o queue

\* no more deliveries than this are enqueued in SpecFair: each subscription
\* is primed at most once and notified at most once by each publish
FairDeliveries == MaxFairSubscribe * (1 + MaxFairPublish)

\* C31: every delivery that was enqueued runs, once, with the value and
\* topic it was enqueued with, whether or not its subscription is still
\* registered and whatever its delivery state is by then; and the queue
\* ends up empty. (No delivery is dropped or changed: the deliveries run
\* and pending are always those there were plus those the last call
\* enqueued. The n-th delivery enqueued becomes the n-th handler call.)
C31_EveryDeliveryRuns ==
  /\ [](Enqueued = TasksOf(lastOp.pre.calls) \o lastOp.pre.queue \o lastOp.enq)
  /\ \A n \in 1..FairDeliveries : (Len(Enqueued) >= n) ~> (Len(calls) >= n)
  /\ <>[](queue = <<>>)

\* a delivery was pending when its subscription was unsubscribed, and has
\* run since; nothing is pending any more
C31_Witness ==
  /\ lastOp.op = "unsubscribe" /\ lastOp.drained /\ queue = <<>>
  /\ For(lastOp.sub, lastOp.pre.queue) # <<>>
  /\ Len(For(lastOp.sub, TasksOf(calls))) =
       Len(For(lastOp.sub, TasksOf(lastOp.pre.calls))) + Len(For(lastOp.sub, lastOp.pre.queue))

---------------------------------------------------------------------------
(* C32 *)

\* a subscribe by name, with priming in force, to a topic configured event-only
EventSubscribe ==
  /\ ExactSubscribe
  /\ getTopicConfig(lastOp.pre, lastOp.topic).eventOnly
  /\ EffDoPrime(Now, lastOp.sub, lastOp.topic)

\* C32: a subscribe by name to an event-only topic, priming being in
\* force, enqueues exactly one delivery, of the topic name, whether or not
\* the topic was ever published and whether or not it has a default.
C32_EventPriming ==
  EventSubscribe =>
    lastOp.enq = <<Delivery(lastOp.sub, lastOp.topic, lastOp.topic)>>

\* the event-only topic had never been published and has no default, and
\* the subscriber gave none
C32_Witness ==
  /\ EventSubscribe /\ JustCalled
  /\ ~storeHas(store, lastOp.topic)
  /\ ~isDefined(getTopicConfig(Now, lastOp.topic).default)
  /\ ~isDefined(subs[lastOp.sub].default)
  /\ lastOp.enq # <<>>

---------------------------------------------------------------------------
(* C33 *)

\* a subscribe that returned normally finds nothing to prime with on topic
\* K, which is not event-only: priming is not in force for it, or the
\* current value as the subscriber resolves it is null or undefined
NothingToPrime(K) ==
  /\ lastOp.op = "subscribe" /\ lastOp.err = ""
  /\ ~getTopicConfig(lastOp.pre, K).eventOnly
  /\ \/ ~EffDoPrime(Now, lastOp.sub, K)
     \/ isNotSet(ResolvedCurrent(lastOp.pre, K, lastOp.arg))

\* C33: a subscribe enqueues no delivery on a topic that is not event-only
\* when priming is not in force or the resolved current value is null or
\* undefined; if it enqueued nothing at all, the handler is not invoked
\* before the next facade call.
C33_NoPrimingWithoutValue ==
  /\ \A K \in TopicNames : NothingToPrime(K) => EnqOn(lastOp, lastOp.sub, K) = <<>>
  /\ (lastOp.op = "subscribe" /\ lastOp.err = "" /\ lastOp.enq = <<>>) =>
       Invocations(lastOp.sub) = <<>>

\* a subscribe by name to a topic holding a value, with priming turned off
\* by the topic: nothing was enqueued for it
C33_Witness ==
  /\ ExactSubscribe /\ JustCalled
  /\ NothingToPrime(lastOp.topic)
  /\ isSet(storeGet(store, lastOp.topic))
  /\ ~getTopicConfig(Now, lastOp.topic).doPrime
  /\ "doPrime" \notin subs[lastOp.sub].has
  /\ lastOp.enq = <<>>

---------------------------------------------------------------------------
(* C34 *)

\* subscription s matched the topic of the last call and its handler had
\* not been invoked when the call was made
NeverInvoked(s) ==
  /\ s \in Matching(lastOp.pre, lastOp.topic)
  /\ For(s, TasksOf(lastOp.pre.calls)) = <<>>

\* C34: a publish enqueues one delivery for every matching subscription
\* whose handler has not been invoked yet, whatever the value (null and
\* undefined with no default included) and whatever allowRepeats is.
C34_FirstDelivery ==
  Published(lastOp) =>
    \A s \in SubIds :
      NeverInvoked(s) =>
        EnqFor(lastOp, s) =
          <<Delivery(s, Resolved(lastOp.pre, s, lastOp.topic, lastOp.arg), lastOp.topic)>>

\* a subscriber that was not primed, on a topic holding a value with
\* repeats off, was called with that value when it was published again
C34_Witness ==
  /\ Published(lastOp) /\ prevOp.op = "subscribe" /\ prevOp.err = "" /\ prevOp.enq = <<>>
  /\ isSet(lastOp.arg) /\ storeGet(lastOp.pre.store, lastOp.topic) = lastOp.arg
  /\ NeverInvoked(prevOp.sub)
  /\ ~EffAllowRepeats(Now, prevOp.sub, lastOp.topic)
  /\ ~EffEventOnly(Now, prevOp.sub, lastOp.topic)
  /\ queue = <<>>
  /\ Invocations(prevOp.sub) = <<Delivery(prevOp.sub, lastOp.arg, lastOp.topic)>>

---------------------------------------------------------------------------
(* C35 *)

\* topic K, which the pattern of the last call matches, has no entry in the
\* store although a subscriber by name would be primed on it: it is
\* event-only, or a default stands in for its value
PrimableUnstored(K) ==
  /\ regexMatch(K, lastOp.topic)
  /\ ~storeHas(lastOp.pre.store, K)
  /\ EffDoPrime(Now, lastOp.sub, K)
  /\ \/ getTopicConfig(lastOp.pre, K).eventOnly
     \/ isSet(ResolvedCurrent(lastOp.pre, K, lastOp.arg))

---------------------------------------------------------------------------
(* C36 *)

\* the handler invocations of subscription s when the last call was made
InvocationsBefore(s) == For(s, TasksOf(lastOp.pre.calls))

\* C36: a publish to T with repeats off leaves a pattern subscription
\* without a delivery exactly when the most recent invocation of its
\* handler, on whatever topic, was with the same value on T; an invocation
\* on another topic in between makes the unchanged value of T a new one.
C36_OneDeliveryState ==
  Published(lastOp) =>
    \A s \in PatternSubs(lastOp.pre, lastOp.topic) :
      LET T == lastOp.topic
          value == Resolved(lastOp.pre, s, T, lastOp.arg)
          before == InvocationsBefore(s)
          same == /\ before # <<>>
                  /\ before[Len(before)].value = value
                  /\ before[Len(before)].topic = T
      IN  (~EffEventOnly(lastOp.pre, s, T) /\ ~EffAllowRepeats(lastOp.pre, s, T)) =>
            EnqFor(lastOp, s) = IF same THEN <<>> ELSE <<Delivery(s, value, T)>>

\* three deliveries to a pattern subscription, on T1, on T2 and on T1 again
\* with the value of the first, each run before the next publish, with
\* repeats off on both topics: the handler was invoked three times
C36_Witness ==
  \E s \in Range(regexSubs) :
    /\ Published(prevOp) /\ Published(lastOp) /\ count["publish"] = 3
    /\ prevOp.pre.queue = <<>> /\ lastOp.pre.queue = <<>> /\ queue = <<>>
    /\ prevOp.topic # lastOp.topic
    /\ ~EffAllowRepeats(Now, s, prevOp.topic) /\ ~EffAllowRepeats(Now, s, lastOp.topic)
    /\ Len(Invocations(s)) = 3
    /\ Invocations(s)[1] = Invocations(s)[3]

---------------------------------------------------------------------------
(* C37 *)

\* the last call was a publish or a subscribe by name to a topic that was
\* not configured
OnUnconfigured ==
  /\ \/ lastOp.op = "publish"
     \/ lastOp.op = "subscribe" /\ lastOp.kind = "string"
  /\ lastOp.topic \notin DOMAIN lastOp.pre.topics

\* C37: only addTopic and addTopics change the Topic Registry: after any
\* other call it is as the call found it. A publish or a subscribe to an
\* unconfigured topic leaves the topic unconfigured: the next call sees the
\* built-in settings for it again, and the call warns (warnings being
\* shown) every time.
C37_RegistryFrame ==
  /\ lastOp.op \notin {"none", "addTopic", "addTopics"} => topics = lastOp.pre.topics
  /\ OnUnconfigured =>
       /\ lastOp.topic \notin DOMAIN topics
       /\ getTopicConfig(Now, lastOp.topic) = [DEFAULT_TOPIC_CONFIG EXCEPT !.name = lastOp.topic]
       /\ lastOp.pre.config.showWarnings =>
            lastOp.warnings[1] = IF lastOp.op = "publish"
                                   THEN "publish: topic has not been configured"
                                   ELSE "subscribe: non-configured topic"

\* a publish to a topic that is not configured, then a subscribe to it: both
\* warned that it is not, and it holds a value and is still not configured
C37_Witness ==
  /\ OnUnconfigured /\ lastOp.op = "subscribe" /\ lastOp.err = ""
  /\ Published(prevOp) /\ prevOp.topic = lastOp.topic
  /\ prevOp.warnings # <<>> /\ prevOp.warnings[1] = "publish: topic has not been configured"
  /\ lastOp.warnings = <<"subscribe: non-configured topic">>
  /\ storeHas(store, lastOp.topic)
  /\ lastOp.topic \notin DOMAIN topics

---------------------------------------------------------------------------
(* C38 *)

\* a clear of a topic that has an entry, right after a clear of the same
\* topic that found an entry too, seen by a subscription s that was there
\* for both and is not event-only
SecondClear(s) ==
  /\ prevOp.op = "clear" /\ lastOp.op = "clear" /\ prevOp.topic = lastOp.topic
  /\ prevOp.err = "" /\ lastOp.err = ""
  /\ storeHas(prevOp.pre.store, prevOp.topic)
  /\ s \in Matching(prevOp.pre, lastOp.topic) /\ s \in Matching(lastOp.pre, lastOp.topic)
  /\ ~EffEventOnly(lastOp.pre, s, lastOp.topic)

\* C38 as stated: a topic name enters the store at its first successful
\* publish and never leaves it; a clear does nothing when the name has no
\* entry and otherwise leaves null in the entry; and a second clear after a
\* first is delivered again to the subscriptions that allow repeats and is
\* suppressed for the others.
C38_StoreKeysGrow ==
  /\ \A K \in TopicNames :
       /\ storeHas(lastOp.pre.store, K) => storeHas(store, K)
       /\ (lastOp.op # "none" /\ storeHas(store, K) /\ ~storeHas(lastOp.pre.store, K)) =>
            Published(lastOp) /\ lastOp.topic = K
  /\ lastOp.op = "clear" =>
       IF storeHas(lastOp.pre.store, lastOp.topic)
         THEN lastOp.err = "" => storeGet(store, lastOp.topic) = Null
         ELSE lastOp.enq = <<>> /\ (JustCalled => Now = lastOp.pre)
  /\ \A s \in SubIds :
       SecondClear(s) =>
         IF EffAllowRepeats(lastOp.pre, s, lastOp.topic)
           THEN Len(EnqFor(lastOp, s)) = 1
           ELSE EnqFor(lastOp, s) = <<>>

---------------------------------------------------------------------------
(* C39 *)

\* two registrations of one handler for one topic or pattern
Twins(b, s, r) ==
  /\ s # r
  /\ b.subs[s].handler = b.subs[r].handler
  /\ b.subs[s].topic = b.subs[r].topic

\* the subscriptions in the index of a broker state
Registered(b) ==
  Range(b.regexSubs) \cup UNION {Range(b.stringSubs[T]) : T \in DOMAIN b.stringSubs}

\* C39: a subscription is its registration. A subscribe adds a new one with
\* a delivery state of its own, whatever is registered already for the same
\* handler and topic; a publish enqueues a delivery for each registration
\* by that registration's own delivery state, so twice for two that have
\* not been invoked; a run sets the delivery state of the one registration
\* it is for; and an unsubscribe takes that one registration out of the
\* index and leaves every other in, to be notified by the next publish.
C39_RegistrationIdentity ==
  /\ (lastOp.op = "subscribe" /\ lastOp.err = "") =>
       /\ lastOp.sub = Len(lastOp.pre.subs) + 1
       /\ JustCalled =>
            /\ Registered(Now) = Registered(lastOp.pre) \cup {lastOp.sub}
            /\ subs[lastOp.sub].lastVal = Undef /\ subs[lastOp.sub].lastTopic = Undef
            /\ \A r \in DOMAIN lastOp.pre.subs : subs[r] = lastOp.pre.subs[r]
  /\ Published(lastOp) =>
       \A s \in Matching(lastOp.pre, lastOp.topic) :
         LET T == lastOp.topic
             sub == lastOp.pre.subs[s]
             value == Resolved(lastOp.pre, s, T, lastOp.arg)
             own == \/ EffEventOnly(lastOp.pre, s, T)
                    \/ EffAllowRepeats(lastOp.pre, s, T)
                    \/ sub.lastVal # value
                    \/ sub.lastTopic # T
         IN  EnqFor(lastOp, s) = IF own THEN <<Delivery(s, value, T)>> ELSE <<>>
  /\ \A s \in SubIds :
       IF Invocations(s) = <<>>
         THEN subs[s].lastVal = Undef
         ELSE subs[s].lastVal = Invocations(s)[Len(Invocations(s))].value
  /\ (lastOp.op = "unsubscribe" /\ JustCalled) =>
       /\ Registered(Now) = Registered(lastOp.pre) \ {lastOp.sub}
       /\ subs = lastOp.pre.subs

\* three registrations of one handler for one topic or pattern, of which one has been
\* unsubscribed: a publish enqueues a delivery for each of the other two,
\* and none for the one unsubscribed
C39_Witness ==
  /\ Published(lastOp) /\ JustCalled
  /\ prevOp.op = "unsubscribe" /\ prevOp.pre.unsubbed[prevOp.sub] = 0
  /\ \E r, q \in SubIds :
       /\ r # q
       /\ Twins(Now, prevOp.sub, r) /\ Twins(Now, prevOp.sub, q)
       /\ Registered(Now) = {r, q}
       /\ lastOp.enq = <<Delivery(r, lastOp.arg, lastOp.topic),
                         Delivery(q, lastOp.arg, lastOp.topic)>>

=============================================================================
